---- MODULE Spec2Model ----
(***************************************************************************)
(* Model of the commit-message bears of coala-bears:                       *)
(*   bears/vcs/CommitBear.py, bears/vcs/git/GitCommitBear.py and           *)
(*   bears/vcs/mercurial/HgCommitBear.py.                                  *)
(*                                                                         *)
(* Text is a sequence of one-character strings.  Regular expressions are   *)
(* syntax trees run by a backtracking matcher that tries alternatives in   *)
(* the priority order of Python's re module (leftmost alternative first,   *)
(* greedy repetition first).                                               *)
(***************************************************************************)
EXTENDS Integers, Sequences, FiniteSets, TLC

(***************************************************************************)
(* Characters and character classes                                        *)
(***************************************************************************)
Whitespace == {" ", "\n", "\t", "\r"}

Digits == {"0", "1", "2", "3", "4", "5", "6", "7", "8", "9"}

LowerLetters ==
  {"a", "b", "c", "d", "e", "f", "g", "h", "i", "j", "k", "l", "m",
   "n", "o", "p", "q", "r", "s", "t", "u", "v", "w", "x", "y", "z"}

UpperLetters ==
  {"A", "B", "C", "D", "E", "F", "G", "H", "I", "J", "K", "L", "M",
   "N", "O", "P", "Q", "R", "S", "T", "U", "V", "W", "X", "Y", "Z"}

WordChars == LowerLetters \cup UpperLetters \cup Digits \cup {"_"}

(***************************************************************************)
(* Regular expression syntax trees                                         *)
(***************************************************************************)
Eps == [t |-> "eps"]

\* a character class; neg = TRUE is the complemented class
Chr(cs) == [t |-> "chr", cs |-> cs, neg |-> FALSE]

NotChr(cs) == [t |-> "chr", cs |-> cs, neg |-> TRUE]

Lit(c) == Chr({c})

Cat(a, b) == [t |-> "cat", a |-> a, b |-> b]

Alt(a, b) == [t |-> "alt", a |-> a, b |-> b]

\* greedy X*
Star(a) == [t |-> "star", a |-> a]

\* greedy X+
Plus(a) == Cat(a, Star(a))

\* greedy X?
Opt(a) == Alt(a, Eps)

\* negative lookahead (?!X)
NotAhead(a) == [t |-> "nla", a |-> a]

\* capturing group (X)
Grp(a) == [t |-> "grp", a |-> a]

RECURSIVE CatAll(_)
CatAll(rs) ==
  IF Len(rs) = 0 THEN Eps
  ELSE IF Len(rs) = 1 THEN rs[1]
  ELSE Cat(rs[1], CatAll(Tail(rs)))

RECURSIVE AltAll(_)
AltAll(rs) ==
  IF Len(rs) = 1 THEN rs[1] ELSE Alt(rs[1], AltAll(Tail(rs)))

\* the regex matching the text w literally
Str(w) == [t |-> "str", w |-> w]

\* \s, \S, \w
WS == Chr(Whitespace)

NonWS == NotChr(Whitespace)

Word == Chr(WordChars)

(***************************************************************************)
(* The backtracking matcher.  Match(re, s, i) is the sequence of all ways  *)
(* re matches s from offset i, in the order a backtracking engine tries    *)
(* them; each is the end offset e and the span g of group 1 (<<>> while    *)
(* unset).  The engine's answer is the first way that lets the rest of     *)
(* the pattern succeed.                                                    *)
(***************************************************************************)
Way(e, g) == [e |-> e, g |-> g]

InClass(c, re) == IF re.neg THEN c \notin re.cs ELSE c \in re.cs

RECURSIVE Flatten(_)
Flatten(ss) ==
  IF Len(ss) = 0 THEN <<>>
  ELSE IF Len(ss) = 1 THEN ss[1]
  ELSE LET h == Len(ss) \div 2
       IN Flatten(SubSeq(ss, 1, h)) \o Flatten(SubSeq(ss, h + 1, Len(ss)))

\* the least element of a non-empty set of numbers
Least(S) == CHOOSE p \in S : \A q \in S : p <= q

\* an expression that consumes exactly one character when it matches
IsStep(re) ==
  \/ re.t = "chr"
  \/ re.t = "cat" /\ re.a.t = "chr" /\ re.b.t = "nla"

RECURSIVE Match(_, _, _)
Match(re, s, i) ==
  CASE re.t = "eps" -> <<Way(i, <<>>)>>
    [] re.t = "chr" ->
         IF i < Len(s) /\ InClass(s[i + 1], re)
         THEN <<Way(i + 1, <<>>)>> ELSE <<>>
    [] re.t = "str" ->
         IF i + Len(re.w) <= Len(s) /\ SubSeq(s, i + 1, i + Len(re.w)) = re.w
         THEN <<Way(i + Len(re.w), <<>>)>> ELSE <<>>
    [] re.t = "cat" ->
         LET ra == Match(re.a, s, i)
         IN Flatten([j \in 1..Len(ra) |->
              LET rb == Match(re.b, s, ra[j].e)
              IN [n \in 1..Len(rb) |->
                   Way(rb[n].e,
                       IF rb[n].g # <<>> THEN rb[n].g ELSE ra[j].g)]])
    [] re.t = "alt" -> Match(re.a, s, i) \o Match(re.b, s, i)
    [] re.t = "star" ->
         IF IsStep(re.a)
         THEN \* the longest run first, then each shorter one
              LET stop == Least({p \in i..Len(s) :
                                   p = Len(s) \/ Len(Match(re.a, s, p)) = 0})
              IN [n \in 1..(stop - i + 1) |-> Way(stop - n + 1, <<>>)]
         ELSE LET ra == Match(re.a, s, i)
              IN Flatten([j \in 1..Len(ra) |->
                   IF ra[j].e = i THEN <<>>
                   ELSE LET rb == Match(re, s, ra[j].e)
                        IN [n \in 1..Len(rb) |->
                             Way(rb[n].e,
                                 IF rb[n].g # <<>> THEN rb[n].g
                                 ELSE ra[j].g)]])
                 \o <<Way(i, <<>>)>>
    [] re.t = "nla" ->
         IF Len(Match(re.a, s, i)) = 0 THEN <<Way(i, <<>>)>> ELSE <<>>
    [] re.t = "grp" ->
         LET ra == Match(re.a, s, i)
         IN [n \in 1..Len(ra) |-> Way(ra[n].e, <<i, ra[n].e>>)]

\* the characters of s at offsets from (inclusive) to to (exclusive)
Slice(s, from, to) == SubSeq(s, from + 1, to)

NoMatch == [ok |-> FALSE, b |-> 0, e |-> 0, g |-> <<>>]

Found(b, w) == [ok |-> TRUE, b |-> b, e |-> w.e, g |-> w.g]

\* group 1 of a successful match
Group1(s, m) == Slice(s, m.g[1], m.g[2])

\* pattern.match(s, pos)
MatchAt(re, s, pos) ==
  LET ways == Match(re, s, pos)
  IN IF Len(ways) = 0 THEN NoMatch ELSE Found(pos, ways[1])

\* pattern.fullmatch(s): the first way that ends at the end of s
fullmatch(re, s) ==
  LET ways == Match(re, s, 0)
      hits == {n \in 1..Len(ways) : ways[n].e = Len(s)}
  IN IF hits = {} THEN NoMatch ELSE Found(0, ways[Least(hits)])

\* pattern.search(s, pos): the leftmost match starting at pos or later
search(re, s, pos) ==
  LET starts == {p \in pos..Len(s) : Len(Match(re, s, p)) > 0}
  IN IF starts = {} THEN NoMatch ELSE MatchAt(re, s, Least(starts))

\* pattern.findall(s) for a pattern with exactly one group: the texts of
\* group 1 of the successive non-overlapping matches, left to right
RECURSIVE FindallFrom(_, _, _)
FindallFrom(re, s, pos) ==
  LET m == search(re, s, pos)
  IN IF ~m.ok THEN <<>>
     ELSE <<Group1(s, m)>>
            \o FindallFrom(re, s, IF m.e = m.b THEN m.e + 1 ELSE m.e)

findall(re, s) == FindallFrom(re, s, 0)

\* re.split(pattern, s) for a pattern without groups that cannot match the
\* empty string: the pieces of s between successive matches
RECURSIVE SplitFrom(_, _, _)
SplitFrom(re, s, pos) ==
  LET m == search(re, s, pos)
  IN IF ~m.ok THEN <<Slice(s, pos, Len(s))>>
     ELSE <<Slice(s, pos, m.b)>> \o SplitFrom(re, s, m.e)

split(re, s) == SplitFrom(re, s, 0)

(***************************************************************************)
(* Texts used by the bears                                                 *)
(***************************************************************************)
GITHUB == <<"g", "i", "t", "h", "u", "b">>

GITLAB == <<"g", "i", "t", "l", "a", "b">>

BITBUCKET == <<"b", "i", "t", "b", "u", "c", "k", "e", "t">>

(***************************************************************************)
(* _CommitBear.CONCATENATION_KEYWORDS: [r',', r'\sand\s']                  *)
(***************************************************************************)
CONCATENATION_KEYWORDS ==
  <<Lit(","), CatAll(<<WS, Str(<<"a", "n", "d">>), WS>>)>>

(***************************************************************************)
(* SUPPORTED_HOST_KEYWORD_REGEX of the two backends                        *)
(***************************************************************************)
\* [Cc]lose[sd]?|[Rr]esolve[sd]?|[Ff]ix(?:e[sd])?
GithubKeywordRegex ==
  AltAll(<<CatAll(<<Chr({"C", "c"}), Str(<<"l", "o", "s", "e">>), Opt(Chr({"s", "d"}))>>),
           CatAll(<<Chr({"R", "r"}), Str(<<"e", "s", "o", "l", "v", "e">>), Opt(Chr({"s", "d"}))>>),
           CatAll(<<Chr({"F", "f"}), Str(<<"i", "x">>),
                    Opt(Cat(Lit("e"), Chr({"s", "d"})))>>)>>)

\* [Cc]los(?:e[sd]?|ing)|[Rr]esolv(?:e[sd]?|ing)|[Ff]ix(?:e[sd]|ing)?
InflectedKeywordRegex ==
  AltAll(<<CatAll(<<Chr({"C", "c"}), Str(<<"l", "o", "s">>),
                    Alt(Cat(Lit("e"), Opt(Chr({"s", "d"}))), Str(<<"i", "n", "g">>))>>),
           CatAll(<<Chr({"R", "r"}), Str(<<"e", "s", "o", "l", "v">>),
                    Alt(Cat(Lit("e"), Opt(Chr({"s", "d"}))), Str(<<"i", "n", "g">>))>>),
           CatAll(<<Chr({"F", "f"}), Str(<<"i", "x">>),
                    Opt(Alt(Cat(Lit("e"), Chr({"s", "d"})), Str(<<"i", "n", "g">>)))>>)>>)

\* the registry of a backend: host name -> keyword regex
SUPPORTED_HOST_KEYWORD_REGEX(backend) ==
  IF backend = "git"
  THEN (GITHUB :> GithubKeywordRegex) @@ (GITLAB :> InflectedKeywordRegex)
  ELSE (BITBUCKET :> InflectedKeywordRegex)

(***************************************************************************)
(* The regular expressions built by check_issue_reference                  *)
(***************************************************************************)
\* concat_regex = '|'.join(kw for kw in self.CONCATENATION_KEYWORDS)
concat_regex == AltAll(CONCATENATION_KEYWORDS)

\* mutation of joint_regex: the whitespace and the references after the
\* keyword may be missing
joint_regex_EmptyPhrase(kw, cc) ==
  CatAll(<<kw, Star(WS),
           Grp(Opt(CatAll(<<Star(Cat(NonWS, NotAhead(cc))), NonWS,
                            Star(CatAll(<<Star(WS), cc, Star(WS),
                                          NotAhead(kw),
                                          Star(Cat(NonWS, NotAhead(cc))),
                                          NonWS>>))>>)))>>)

\* mutation of joint_regex: the lookahead (?!{0}) after a conjunction is
\* missing
joint_regex_NoKeywordGuard(kw, cc) ==
  CatAll(<<kw, Plus(WS),
           Grp(CatAll(<<Star(Cat(NonWS, NotAhead(cc))), NonWS,
                        Star(CatAll(<<Star(WS), cc, Star(WS),
                                      Star(Cat(NonWS, NotAhead(cc))),
                                      NonWS>>))>>))>>)

\* (?:{0})\s+((?:\S(?!{1}))*\S(?:\s*(?:{1})\s*(?!{0})(?:\S(?!{1}))*\S)*)
joint_regex(kw, cc) ==
  CatAll(<<kw, Plus(WS),
           Grp(CatAll(<<Star(Cat(NonWS, NotAhead(cc))), NonWS,
                        Star(CatAll(<<Star(WS), cc, Star(WS),
                                      NotAhead(kw),
                                      Star(Cat(NonWS, NotAhead(cc))),
                                      NonWS>>))>>))>>)

\* re.escape(host) compiled: matches the text of host literally
re_escape(host) == Str(host)

\* mutation of issue_ref_regex: the group of the issue number stops at a
\* slash, ([^\s/]+)
issue_ref_regex_NoSlashInNumber(backend, full_url, host) ==
  IF full_url
  THEN CatAll(<<Str(<<"h", "t", "t", "p">>), Opt(Lit("s")), Str(<<":", "/", "/">>), re_escape(host),
                Plus(NonWS), Str(<<"/", "i", "s", "s", "u", "e", "s", "/">>),
                Grp(Plus(NotChr(Whitespace \cup {"/"}))),
                IF backend = "hg" THEN Cat(Lit("/"), Plus(NonWS)) ELSE Eps>>)
  ELSE CatAll(<<Opt(CatAll(<<Plus(Word), Lit("/"), Plus(Word)>>)),
                Lit("#"), Grp(Plus(NotChr(Whitespace \cup {"/"}))),
                IF backend = "hg" THEN Opt(Lit("/")) ELSE Eps>>)

\* mutation of issue_ref_regex: hg uses the git patterns, without the path
\* segment after the issue number
issue_ref_regex_NoTrail(backend, full_url, host) ==
  IF full_url
  THEN CatAll(<<Str(<<"h", "t", "t", "p">>), Opt(Lit("s")),
                Str(<<":", "/", "/">>), re_escape(host),
                Plus(NonWS), Str(<<"/", "i", "s", "s", "u", "e", "s", "/">>),
                Grp(Plus(NonWS))>>)
  ELSE CatAll(<<Opt(CatAll(<<Plus(Word), Lit("/"), Plus(Word)>>)),
                Lit("#"), Grp(Plus(NonWS))>>)

\* git: https?://{}\S+/issues/(\S+)      (?:\w+/\w+)?#(\S+)
\* hg:  https?://{}\S+/issues/(\S+)/\S+  (?:\w+/\w+)?#(\S+)/?
issue_ref_regex(backend, full_url, host) ==
  IF full_url
  THEN CatAll(<<Str(<<"h", "t", "t", "p">>), Opt(Lit("s")), Str(<<":", "/", "/">>), re_escape(host),
                Plus(NonWS), Str(<<"/", "i", "s", "s", "u", "e", "s", "/">>), Grp(Plus(NonWS)),
                IF backend = "hg" THEN Cat(Lit("/"), Plus(NonWS)) ELSE Eps>>)
  ELSE CatAll(<<Opt(CatAll(<<Plus(Word), Lit("/"), Plus(Word)>>)),
                Lit("#"), Grp(Plus(NonWS)),
                IF backend = "hg" THEN Opt(Lit("/")) ELSE Eps>>)

\* mutation of issue_no_regex: [0-9]+, a leading zero is accepted
issue_no_regex_AnyDigits == Plus(Chr(Digits))

\* [1-9][0-9]*
issue_no_regex == Cat(Chr(Digits \ {"0"}), Star(Chr(Digits)))

\* \s*(?:{})\s*
compiled_concat_regex == CatAll(<<Star(WS), concat_regex, Star(WS)>>)

(***************************************************************************)
(* String helpers of the Python runtime                                    *)
(***************************************************************************)
Last(q) == q[Len(q)]

\* needle in s
Contains(s, needle) ==
  \E p \in 0..(Len(s) - Len(needle)) : Slice(s, p, p + Len(needle)) = needle

\* str.find(c) for one character: least offset of c in s, or -1
Find(s, c) ==
  LET at == {p \in 0..(Len(s) - 1) : s[p + 1] = c}
  IN IF at = {} THEN 0 - 1 ELSE Least(at)

LineBreaks == {"\n", "\r"}

\* str.splitlines(): a final line break does not open another line
RECURSIVE splitlines(_)
splitlines(s) ==
  IF Len(s) = 0 THEN <<>>
  ELSE LET brk == {p \in 1..Len(s) : s[p] \in LineBreaks}
       IN IF brk = {} THEN <<s>>
          ELSE LET p == Least(brk)
                   q == IF s[p] = "\r" /\ p < Len(s) /\ s[p + 1] = "\n"
                        THEN p + 1 ELSE p
               IN <<SubSeq(s, 1, p - 1)>> \o splitlines(SubSeq(s, q + 1, Len(s)))

\* str.split(): the maximal runs of non-whitespace characters
RECURSIVE split_ws(_)
split_ws(s) ==
  LET starts == {p \in 1..Len(s) : s[p] \notin Whitespace}
  IN IF starts = {} THEN <<>>
     ELSE LET b == Least(starts)
              e == Least({p \in b..Len(s) :
                            p = Len(s) \/ s[p + 1] \in Whitespace})
          IN <<SubSeq(s, b, e)>> \o split_ws(SubSeq(s, e + 1, Len(s)))

\* str.split(c)[0]: the text before the first c
BeforeFirst(s, c) ==
  LET p == Find(s, c) IN IF p < 0 THEN s ELSE Slice(s, 0, p)

\* str.split(c)[-1]: the text after the last c
AfterLast(s, c) ==
  LET at == {p \in 1..Len(s) : s[p] = c}
  IN IF at = {} THEN s
     ELSE SubSeq(s, (CHOOSE p \in at : \A q \in at : q <= p) + 1, Len(s))

SchemeChars == LowerLetters \cup UpperLetters \cup Digits \cup {"+", "-", "."}

\* urlparse(url)[1]: the network location.  A leading scheme (letters,
\* digits, '+', '-', '.' up to the first ':', starting with a letter) is
\* removed; if the rest starts with '//' the netloc is what follows up to
\* the first of '/', '?', '#'; otherwise it is empty.
urlparse_netloc(url) ==
  LET i == Find(url, ":")
      hasScheme == /\ i > 0
                   /\ url[1] \in LowerLetters \cup UpperLetters
                   /\ \A p \in 1..i : url[p] \in SchemeChars
      rest == IF hasScheme THEN Slice(url, i + 1, Len(url)) ELSE url
  IN IF Len(rest) >= 2 /\ rest[1] = "/" /\ rest[2] = "/"
     THEN LET stops == {p \in 3..Len(rest) : rest[p] \in {"/", "?", "#"}}
              delim == IF stops = {} THEN Len(rest) + 1 ELSE Least(stops)
          IN SubSeq(rest, 3, delim - 1)
     ELSE <<>>

(***************************************************************************)
(* get_host_from_remotes of the two backends.  out is the text printed by  *)
(* the version-control tool; the result is None, a host name, or an        *)
(* exception raised by an indexing [0] or [-1] of an empty list.           *)
(***************************************************************************)
None == [kind |-> "None", v |-> <<>>]

Some(v) == [kind |-> "str", v |-> v]

Raised == [kind |-> "raise", v |-> <<>>]

\* 'git@' / 'hg@'
UserMarker(backend) ==
  IF backend = "git" THEN <<"g", "i", "t", "@">> ELSE <<"h", "g", "@">>

\* git: @(\S+):     hg: @(\S+)\.
UserHostRegex(backend) ==
  CatAll(<<Lit("@"), Grp(Plus(NonWS)),
           IF backend = "git" THEN Lit(":") ELSE Lit(".")>>)

get_host_from_remotes(backend, out) ==
  LET lines == splitlines(out)
  IN IF \E n \in 1..Len(lines) : Len(split_ws(lines[n])) = 0 THEN Raised
     ELSE IF Len(lines) = 0 THEN None
     ELSE
       LET url == Last(split_ws(lines[1]))
           found == findall(UserHostRegex(backend), url)
       IN IF Contains(url, UserMarker(backend)) /\ Len(found) = 0 THEN Raised
          ELSE
            LET netloc == IF Contains(url, UserMarker(backend))
                          THEN found[1] ELSE urlparse_netloc(url)
                label == BeforeFirst(netloc, ".")
            IN Some(IF backend = "git" THEN label ELSE AfterLast(label, "@"))

(***************************************************************************)
(* Results.  A Result carries the message format, the text substituted     *)
(* for the issue kind and the text substituted for the reference; the      *)
(* message is the format with both substituted.                            *)
(***************************************************************************)
Result(fmt, info, text) == [fmt |-> fmt, info |-> info, text |-> text]

NoHostResult == Result("No host configured in path.", "", <<>>)

UnsupportedHostResult == Result("Un-supported host in path.", "", <<>>)

result_message(on_last_line) ==
  IF on_last_line
  THEN "Body of HEAD commit does not contain any {} reference in the last line."
  ELSE "Body of HEAD commit does not contain any {} reference."

result_info(full_url) == IF full_url THEN "full issue" ELSE "issue"

InvalidReferenceResult(info, issue) ==
  Result("Invalid {} reference: {}", info, issue)

InvalidNumberResult(issue) == Result("Invalid issue number: {}", "", issue)

(***************************************************************************)
(* Steps of check_issue_reference                                          *)
(***************************************************************************)
\* mutation of HostCheck: hg has no separate answer for a missing host
HostCheck_NoNoneCase(backend, h) ==
  IF h.kind = "None" \/ h.v \notin DOMAIN SUPPORTED_HOST_KEYWORD_REGEX(backend)
  THEN [yield |-> IF backend = "hg" THEN <<UnsupportedHostResult>> ELSE <<>>,
        go |-> FALSE]
  ELSE [yield |-> <<>>, go |-> TRUE]

\* the results of the host check: what is yielded, and whether to go on
HostCheck(backend, h) ==
  IF backend = "hg" /\ h.kind = "None"
  THEN [yield |-> <<NoHostResult>>, go |-> FALSE]
  ELSE IF h.kind = "None" \/ h.v \notin DOMAIN SUPPORTED_HOST_KEYWORD_REGEX(backend)
  THEN [yield |-> IF backend = "hg" THEN <<UnsupportedHostResult>> ELSE <<>>,
        go |-> FALSE]
  ELSE [yield |-> <<>>, go |-> TRUE]

\* mutation of SelectBody: the first line is taken instead of the last
SelectBody_FirstLine(b, on_last_line) ==
  IF on_last_line /\ Len(b) # 0 THEN splitlines(b)[1] ELSE b

\* the text that is scanned
SelectBody(b, on_last_line) ==
  IF on_last_line /\ Len(b) # 0 THEN Last(splitlines(b)) ELSE b

\* mutation of FindMatches: a keyword is found only at the start of the
\* text or after whitespace
FindMatches_WordStart(backend, h, b) ==
  findall(Cat(WS, joint_regex(SUPPORTED_HOST_KEYWORD_REGEX(backend)[h], concat_regex)),
          <<" ">> \o b)

\* matches = compiled_joint_regex.findall(body)
FindMatches(backend, h, b) ==
  findall(joint_regex(SUPPORTED_HOST_KEYWORD_REGEX(backend)[h], concat_regex), b)

\* re.split(compiled_concat_regex, match)
SplitMatch(match) == split(compiled_concat_regex, match)

\* mutation of CheckIssue: the reference pattern is searched for in the
\* issue instead of matched against all of it
CheckIssue_Search(backend, full_url, h, issue) ==
  LET reference == search(issue_ref_regex(backend, full_url, h), issue, 0)
  IN IF ~reference.ok
     THEN <<InvalidReferenceResult(result_info(full_url), issue)>>
     ELSE IF ~fullmatch(issue_no_regex, Group1(issue, reference)).ok
     THEN <<InvalidNumberResult(issue)>>
     ELSE <<>>

\* the body of the inner loop: what one issue yields
CheckIssue(backend, full_url, h, issue) ==
  LET reference == fullmatch(issue_ref_regex(backend, full_url, h), issue)
  IN IF ~reference.ok
     THEN <<InvalidReferenceResult(result_info(full_url), issue)>>
     ELSE IF ~fullmatch(issue_no_regex, Group1(issue, reference)).ok
     THEN <<InvalidNumberResult(issue)>>
     ELSE <<>>

(***************************************************************************)
(* Inputs.  Commit bodies are built from a few words so that every shape   *)
(* of reference, conjunction and keyword clause occurs.                    *)
(***************************************************************************)
\* longest issue-number text tried after '#'
MaxNumLen == 2

\* most conjunctions in one keyword clause
MaxConj == 2

FIX == <<"F", "i", "x">>

RESOLVE == <<"R", "e", "s", "o", "l", "v", "e">>

CLOSE == <<"c", "l", "o", "s", "e">>

CLOSING == <<"C", "l", "o", "s", "i", "n", "g">>

SP == <<" ">>

NL == <<"\n">>

HASH == <<"#">>

HTTPS == <<"h", "t", "t", "p", "s", ":", "/", "/">>

ISSUES == <<"/", "i", "s", "s", "u", "e", "s", "/">>

\* characters tried in an issue number
NumChars == {"0", "1", "x", "/"}

NumStrs == UNION {[1..n -> NumChars] : n \in 0..MaxNumLen}

Owners == {<<>>, <<"o", "/", "r">>}

\* '#X' and 'o/r#X'
ShortTokens == {pre \o HASH \o x : pre \in Owners, x \in NumStrs}

Domains == {<<"b", "i", "t", "b", "u", "c", "k", "e", "t", ".", "o", "r", "g">>, <<"g", "i", "t", "h", "u", "b", ".", "c", "o", "m">>, <<"g", "i", "t", "l", "a", "b", ".", "c", "o", "m">>}

UrlNums == {<<"7">>, <<"0", "7">>, <<"x">>}

Trails == {<<>>, <<"/", "n">>, <<"/", "n", "/", "m">>}

\* 'https://<domain>/o/issues/<X><trail>'
Url(d, x, t) == HTTPS \o d \o <<"/", "o">> \o ISSUES \o x \o t

UrlTokens == {Url(d, x, t) : d \in Domains, x \in UrlNums, t \in Trails}

OddTokens ==
  {<<"o", "#", "3">>, <<"w", "w", "w", ".", "g", ".", "c", "o", "m", "/", "i", "s", "s", "u", "e", "s", "/", "x">>, <<"h", "t", "t", "p", "s", ":", "/", "/", "b", "i", "t", "b", "u", "c", "k", "e", "t", ".", "o", "r", "g", "/", "o", "/", "r">>, <<"f", "i", "x", "/", "r", "#", "3">>}

\* one keyword and one reference
TokenBodies ==
  {FIX \o SP \o tok : tok \in ShortTokens \cup UrlTokens \cup OddTokens}

ListRefs == {<<"#", "1">>, <<"#", "0">>, <<"f", "i", "x", "/", "r", "#", "3">>}

Conjs == {<<",", " ">>, <<" ", "a", "n", "d", " ">>}

RECURSIVE Lists(_)
Lists(k) ==
  IF k = 0 THEN ListRefs
  ELSE {l \o c \o r : l \in Lists(k - 1), c \in Conjs, r \in ListRefs}

\* one keyword and up to MaxConj + 1 references joined by conjunctions
ListBodies == {FIX \o SP \o l : l \in UNION {Lists(k) : k \in 0..MaxConj}}

\* a keyword and two bitbucket URLs joined by a conjunction
UrlPairBodies ==
  {CLOSING \o SP \o Url(<<"b", "i", "t", "b", "u", "c", "k", "e", "t", ".", "o", "r", "g">>, x, <<"/", "n">>) \o c
     \o Url(<<"b", "i", "t", "b", "u", "c", "k", "e", "t", ".", "o", "r", "g">>, y, <<"/", "n">>) :
     x \in UrlNums, y \in UrlNums, c \in {<<"\n", "a", "n", "d", " ">>, <<",", " ">>}}

\* two keyword clauses with a conjunction between them
TwoKeywordBodies ==
  {FIX \o SP \o r1 \o c \o k2 \o SP \o r2 :
     r1 \in {<<"#", "1">>, <<"#", "0">>}, r2 \in {<<"#", "2">>, <<"#", "0", "0">>},
     c \in Conjs \cup {<<",">>, <<"\n", "a", "n", "d", " ">>}, k2 \in {RESOLVE, CLOSE, CLOSING}}

Lines == {<<>>, <<"a", "b">>, FIX \o SP \o <<"#", "1">>, FIX \o SP \o <<"#", "0">>}

\* two lines, with and without a final line break, and the empty body
LineBodies ==
  {l1 \o NL \o l2 \o e : l1 \in Lines, l2 \in Lines, e \in {<<>>, NL}}
    \cup {<<>>}

\* bodies without a reference after a keyword
PlainBodies ==
  {FIX, FIX \o SP, <<"p", "r", "e", "f", "i", "x", " ", "#", "0">>, <<"a", "b", " ", "c", "d">>,
   FIX \o SP \o FIX \o SP \o <<"#", "1">>, FIX \o SP \o <<"f", "i", "x", "e", "s">>,
   <<"a", "b", " ">> \o CLOSING \o NL,
   <<"s", "u", "f", "f", "i", "x", " ", "f", "o", "o">>}

Bodies ==
  TokenBodies \cup ListBodies \cup UrlPairBodies \cup TwoKeywordBodies
    \cup LineBodies \cup PlainBodies

\* what 'git config --get-regex ^remote.*.url$' / 'hg paths' print
RemoteOutputs(backend) ==
  IF backend = "git"
  THEN {<<>>,
        <<"r", "e", "m", "o", "t", "e", ".", "o", ".", "u", "r", "l", " ", "h", "t", "t", "p", "s", ":", "/", "/", "g", "i", "t", "h", "u", "b", ".", "c", "o", "m", "/", "o", "/", "r", "\n">>,
        <<"r", "e", "m", "o", "t", "e", ".", "o", ".", "u", "r", "l", " ", "g", "i", "t", "@", "g", "i", "t", "l", "a", "b", ".", "c", "o", "m", ":", "o", "/", "r", "\n", "r", "e", "m", "o", "t", "e", ".", "u", ".", "u", "r", "l", " ", "h", "t", "t", "p", "s", ":", "/", "/", "g", "i", "t", "h", "u", "b", ".", "c", "o", "m", "/", "o", "/", "r", "\n">>,
        <<"r", "e", "m", "o", "t", "e", ".", "o", ".", "u", "r", "l", " ", "h", "t", "t", "p", "s", ":", "/", "/", "b", "i", "t", "b", "u", "c", "k", "e", "t", ".", "o", "r", "g", "/", "o", "/", "r", "\n">>}
  ELSE {<<>>,
        <<"d", "e", "f", "a", "u", "l", "t", " ", "=", " ", "h", "t", "t", "p", "s", ":", "/", "/", "u", "s", "e", "r", "@", "b", "i", "t", "b", "u", "c", "k", "e", "t", ".", "o", "r", "g", "/", "o", "/", "r", "\n">>,
        <<"d", "e", "f", "a", "u", "l", "t", " ", "=", " ", "s", "s", "h", ":", "/", "/", "h", "g", "@", "b", "i", "t", "b", "u", "c", "k", "e", "t", ".", "o", "r", "g", "/", "o", "/", "r", "\n">>,
        <<"d", "e", "f", "a", "u", "l", "t", " ", "=", " ", "h", "t", "t", "p", ":", "/", "/", "h", "g", ".", "s", "v", ".", "g", "n", "u", ".", "o", "r", "g", "/", "p", "\n">>}

(***************************************************************************)
(* State of one call of check_issue_reference                              *)
(***************************************************************************)
VARIABLES
  backend,                        \* "git" (GitCommitBear) or "hg" (HgCommitBear)
  remotes_out,                    \* output of the remote listing command
  arg_body,                       \* the body argument as passed
  body_close_issue,
  body_close_issue_full_url,
  body_close_issue_on_last_line,
  body_enforce_issue_reference,
  pc,                             \* position in check_issue_reference
  host,                           \* local host
  body,                           \* local body (rebound to its last line)
  matches,                        \* local matches
  mi,                             \* index of the outer loop
  issues,                         \* re.split(...) of the current match
  ii,                             \* index of the inner loop
  results,                        \* the Results yielded so far
  steps                           \* the calls made so far

(***************************************************************************)
(* State of one call of run, which fetches the commit message and calls    *)
(* check_shortlog, check_body and check_issue_reference in turn; their     *)
(* Results go to results, and arg_body is the body that run passes on.     *)
(***************************************************************************)
VARIABLES
  stdout,                         \* output of the log command
  stderr,                         \* its error text
  allow_empty_commit_message,
  kwargs,                         \* the settings of check_shortlog and check_body
  tagger,                         \* what the part-of-speech tagger says
  rpc,                            \* position in run
  shortlog,                       \* local shortlog of run
  err                             \* the messages given to self.err

run_vars ==
  <<stdout, stderr, allow_empty_commit_message, kwargs, tagger, rpc, shortlog,
    err>>

(***************************************************************************)
(* State of the classes: the attribute _nltk_data_downloaded of each       *)
(* class, the bears under construction and the downloads made              *)
(***************************************************************************)
VARIABLES
  nltk_data_downloaded,           \* class -> value of the class attribute
  bears,                          \* the bears constructed, with their position
  downloads                       \* the calls of nltk.download: begun, finished

setup_vars == <<nltk_data_downloaded, bears, downloads>>

outer == <<run_vars, setup_vars>>

vars ==
  <<backend, remotes_out, arg_body, body_close_issue,
    body_close_issue_full_url, body_close_issue_on_last_line,
    body_enforce_issue_reference, pc, host, body, matches, mi, issues, ii,
    results, steps, outer>>

params ==
  <<backend, remotes_out, arg_body, body_close_issue,
    body_close_issue_full_url, body_close_issue_on_last_line,
    body_enforce_issue_reference>>

Unset == [kind |-> "unset", v |-> <<>>]

\* a regex setting: the pattern as written and as compiled; '' is "not given"
RegexSetting(src, re) == [src |-> src, re |-> re]

NoRegex == RegexSetting("", Eps)

\* the defaults of the parameters of check_shortlog and check_body
DefaultKwargs ==
  [shortlog_length |-> 50,
   shortlog_regex |-> NoRegex,
   shortlog_trailing_period |-> "None",
   shortlog_imperative_check |-> TRUE,
   shortlog_wip_check |-> "True",
   body_line_length |-> 72,
   force_body |-> FALSE,
   ignore_length_regex |-> <<>>,
   body_regex |-> NoRegex]

Classes == {"_CommitBear", "GitCommitBear", "HgCommitBear"}

\* class _CommitBear sets the attribute; the two subclasses inherit it
ClassAttrs ==
  [c \in Classes |-> IF c = "_CommitBear" THEN "False" ELSE "unset"]

\* run has not been called
RunIdle ==
  /\ stdout = <<>>
  /\ stderr = <<>>
  /\ allow_empty_commit_message = FALSE
  /\ kwargs = DefaultKwargs
  /\ tagger = "VB"
  /\ rpc = "idle"
  /\ shortlog = <<>>
  /\ err = <<>>

\* the classes as loaded, no bear constructed
SetupIdle ==
  /\ nltk_data_downloaded = ClassAttrs
  /\ bears = <<>>
  /\ downloads = [begun |-> 0, finished |-> 0]

Init ==
  /\ RunIdle
  /\ SetupIdle
  /\ backend \in {"git", "hg"}
  /\ remotes_out \in RemoteOutputs(backend)
  /\ arg_body \in Bodies
  /\ body_close_issue \in BOOLEAN
  /\ body_close_issue_full_url \in BOOLEAN
  /\ body_close_issue_on_last_line \in BOOLEAN
  /\ body_enforce_issue_reference \in BOOLEAN
  /\ pc = "start"
  /\ host = Unset
  /\ body = arg_body
  /\ matches = <<>>
  /\ mi = 0
  /\ issues = <<>>
  /\ ii = 0
  /\ results = <<>>
  /\ steps = <<>>

\* mutation of CheckEnabled: the flag is not looked at
CheckEnabled_Ignored ==
  /\ pc = "start"
  /\ pc' = "host"
  /\ UNCHANGED <<outer, params, host, body, matches, mi, issues, ii, results, steps>>

\* if not body_close_issue: return
CheckEnabled ==
  /\ pc = "start"
  /\ pc' = IF body_close_issue THEN "host" ELSE "done"
  /\ UNCHANGED <<outer, params, host, body, matches, mi, issues, ii, results, steps>>

\* host = self.get_host_from_remotes()
ResolveHost ==
  /\ pc = "host"
  /\ host' = get_host_from_remotes(backend, remotes_out)
  /\ pc' = IF host'.kind = "raise" THEN "raised" ELSE "hostcheck"
  /\ steps' = Append(steps, "get_host_from_remotes")
  /\ UNCHANGED <<outer, params, body, matches, mi, issues, ii, results>>

\* the host is None or not in SUPPORTED_HOST_KEYWORD_REGEX: return
CheckHost ==
  /\ pc = "hostcheck"
  /\ results' = results \o HostCheck(backend, host).yield
  /\ pc' = IF HostCheck(backend, host).go THEN "select" ELSE "done"
  /\ UNCHANGED <<outer, params, host, body, matches, mi, issues, ii, steps>>

\* if body_close_issue_on_last_line: if body: body = body.splitlines()[-1]
SelectLine ==
  /\ pc = "select"
  /\ body' = SelectBody(body, body_close_issue_on_last_line)
  /\ pc' = "extract"
  /\ UNCHANGED <<outer, params, host, matches, mi, issues, ii, results, steps>>

\* mutation of Extract: enforcement does not look at the number of matches
Extract_AlwaysEnforce ==
  /\ pc = "extract"
  /\ matches' = FindMatches(backend, host.v, body)
  /\ steps' = Append(steps, "findall")
  /\ IF body_enforce_issue_reference
     THEN /\ results' = Append(results,
                          Result(result_message(body_close_issue_on_last_line),
                                 result_info(body_close_issue_full_url), <<>>))
          /\ pc' = "done"
          /\ mi' = mi
     ELSE /\ results' = results
          /\ pc' = "match"
          /\ mi' = 1
  /\ UNCHANGED <<outer, params, host, body, issues, ii>>

\* matches = findall(body); the enforcement check
Extract ==
  /\ pc = "extract"
  /\ matches' = FindMatches(backend, host.v, body)
  /\ steps' = Append(steps, "findall")
  /\ IF body_enforce_issue_reference /\ Len(matches') = 0
     THEN /\ results' = Append(results,
                          Result(result_message(body_close_issue_on_last_line),
                                 result_info(body_close_issue_full_url), <<>>))
          /\ pc' = "done"
          /\ mi' = mi
     ELSE /\ results' = results
          /\ pc' = "match"
          /\ mi' = 1
  /\ UNCHANGED <<outer, params, host, body, issues, ii>>

\* for match in matches: ... re.split(compiled_concat_regex, match)
NextMatch ==
  /\ pc = "match"
  /\ IF mi > Len(matches)
     THEN /\ pc' = "done"
          /\ UNCHANGED <<issues, ii, steps>>
     ELSE /\ issues' = SplitMatch(matches[mi])
          /\ ii' = 1
          /\ steps' = Append(steps, "split")
          /\ pc' = "issue"
  /\ UNCHANGED <<outer, params, host, body, matches, mi, results>>

\* mutation of NextIssue: a new result is put before the earlier ones
NextIssue_Prepend ==
  /\ pc = "issue"
  /\ IF ii > Len(issues)
     THEN /\ mi' = mi + 1
          /\ pc' = "match"
          /\ UNCHANGED <<ii, results, steps>>
     ELSE /\ results' = CheckIssue(backend, body_close_issue_full_url, host.v,
                                   issues[ii]) \o results
          /\ ii' = ii + 1
          /\ steps' = Append(steps, "fullmatch")
          /\ UNCHANGED <<mi, pc>>
  /\ UNCHANGED <<outer, params, host, body, matches, issues>>

\* for issue in ...: fullmatch and the two yields
NextIssue ==
  /\ pc = "issue"
  /\ IF ii > Len(issues)
     THEN /\ mi' = mi + 1
          /\ pc' = "match"
          /\ UNCHANGED <<ii, results, steps>>
     ELSE /\ results' = results
               \o CheckIssue(backend, body_close_issue_full_url, host.v,
                             issues[ii])
          /\ ii' = ii + 1
          /\ steps' = Append(steps, "fullmatch")
          /\ UNCHANGED <<mi, pc>>
  /\ UNCHANGED <<outer, params, host, body, matches, issues>>

Next ==
  \/ CheckEnabled
  \/ ResolveHost
  \/ CheckHost
  \/ SelectLine
  \/ Extract
  \/ NextMatch
  \/ NextIssue

Spec == Init /\ [][Next]_vars

(***************************************************************************)
(* check_shortlog, check_imperative and check_body.  Each is a generator   *)
(* that depends on its arguments only; its outcome is the Results it       *)
(* yields and whether it ends by raising an exception.                     *)
(***************************************************************************)
Outcome(yield, raised) == [yield |-> yield, raised |-> raised]

\* str(n) for a natural number
RECURSIVE Decimal(_)
Decimal(n) ==
  LET digit(d) == <<"0", "1", "2", "3", "4", "5", "6", "7", "8", "9">>[d + 1]
  IN IF n < 10 THEN <<digit(n)>> ELSE Decimal(n \div 10) \o <<digit(n % 10)>>

\* str.lower() on the letters A-Z
lower(s) ==
  LET up ==
     "A" :> "a" @@ "B" :> "b" @@ "C" :> "c" @@ "D" :> "d" @@ "E" :> "e" @@ "F" :> "f" @@
     "G" :> "g" @@ "H" :> "h" @@ "I" :> "i" @@ "J" :> "j" @@ "K" :> "k" @@ "L" :> "l" @@
     "M" :> "m" @@ "N" :> "n" @@ "O" :> "o" @@ "P" :> "p" @@ "Q" :> "q" @@ "R" :> "r" @@
     "S" :> "s" @@ "T" :> "t" @@ "U" :> "u" @@ "V" :> "v" @@ "W" :> "w" @@ "X" :> "x" @@
     "Y" :> "y" @@ "Z" :> "z"
  IN [n \in 1..Len(s) |-> IF s[n] \in DOMAIN up THEN up[s[n]] ELSE s[n]]

\* str.strip()
strip(s) ==
  LET ink == {p \in 1..Len(s) : s[p] \notin Whitespace}
  IN IF ink = {} THEN <<>>
     ELSE SubSeq(s, Least(ink), CHOOSE p \in ink : \A q \in ink : q <= p)

\* s[:n]
Prefix(s, n) == SubSeq(s, 1, IF n < Len(s) THEN n ELSE Len(s))

EndsWith(s, w) ==
  Len(w) <= Len(s) /\ SubSeq(s, Len(s) - Len(w) + 1, Len(s)) = w

\* The tags that are not imperative mood
FlawTags == {"VBZ", "VBD", "VBG"}

\* check_imperative: the first word of the paragraph and the tag that the
\* tagger gives it; indexing [0] raises when the paragraph has no word.
\* The word is taken to be the first run of non-whitespace characters.
check_imperative(paragraph, tag) ==
  LET words == split_ws(paragraph)
  IN IF Len(words) = 0 THEN Raised
     ELSE IF tag \in FlawTags
             \/ EndsWith(words[1], <<"i", "n", "g">>)
     THEN Some(words[1])
     ELSE None

LengthResult(len, limit) ==
  Result("Shortlog of the HEAD commit contains {} character(s). This is {} character(s) longer than the limit ({} > {}).",
         "",
         Decimal(len) \o SP \o Decimal(len - limit) \o SP \o Decimal(len)
           \o SP \o Decimal(limit))

NoPeriodResult ==
  Result("Shortlog of HEAD commit contains no period at end.", "", <<>>)

PeriodResult ==
  Result("Shortlog of HEAD commit contains a period at end.", "", <<>>)

ShortlogRegexResult(regex) ==
  Result("Shortlog of HEAD commit does not match given regex: {regex}",
         regex.src, <<>>)

ImperativeResult(bad_word) ==
  Result("Shortlog of HEAD commit isn't in imperative mood! Bad words are '{}'",
         "", bad_word)

WipResult ==
  Result("This commit seems to be marked as work in progress and should not be used in production. Treat carefully.", "", <<>>)

\* if shortlog_wip_check: if 'wip' in shortlog.lower()[:4]
WipCheck(text, shortlog_wip_check) ==
  IF shortlog_wip_check = "True"
     /\ Contains(Prefix(lower(text), 4), <<"w", "i", "p">>)
  THEN <<WipResult>> ELSE <<>>

\* mutation of PeriodCheck: None is taken as False
PeriodCheck_NoneAsFalse(text, shortlog_trailing_period) ==
  IF shortlog_trailing_period = "True" /\ Last(text) # "."
  THEN <<NoPeriodResult>>
  ELSE IF shortlog_trailing_period # "True" /\ Last(text) = "."
  THEN <<PeriodResult>>
  ELSE <<>>

\* (shortlog[-1] != '.') == shortlog_trailing_period
PeriodCheck(text, shortlog_trailing_period) ==
  IF shortlog_trailing_period = "True" /\ Last(text) # "."
  THEN <<NoPeriodResult>>
  ELSE IF shortlog_trailing_period = "False" /\ Last(text) = "."
  THEN <<PeriodResult>>
  ELSE <<>>

check_shortlog(text, kw, tag) ==
  LET long == IF Len(text) > kw.shortlog_length
              THEN <<LengthResult(Len(text), kw.shortlog_length)>> ELSE <<>>
  IN IF Len(text) = 0 THEN Outcome(long, TRUE)
     ELSE
       LET period == PeriodCheck(text, kw.shortlog_trailing_period)
           regex == IF kw.shortlog_regex.src # ""
                       /\ ~fullmatch(kw.shortlog_regex.re, text).ok
                    THEN <<ShortlogRegexResult(kw.shortlog_regex)>> ELSE <<>>
           first == long \o period \o regex
           colon_pos == Find(text, ":")
           rebound == IF kw.shortlog_imperative_check /\ colon_pos # 0 - 1
                      THEN Slice(text, colon_pos + 1, Len(text)) ELSE text
           has_flaws == check_imperative(rebound, tag)
       IN IF kw.shortlog_imperative_check /\ has_flaws.kind = "raise"
          THEN Outcome(first, TRUE)
          ELSE Outcome(first
                         \o (IF kw.shortlog_imperative_check
                                /\ has_flaws.kind = "str"
                             THEN <<ImperativeResult(has_flaws.v)>> ELSE <<>>)
                         \o WipCheck(rebound, kw.shortlog_wip_check),
                       FALSE)

NoBodyResult == Result("No commit message body at HEAD.", "", <<>>)

NoNewlineResult ==
  Result("No newline found between shortlog and body at HEAD commit. Please add one.",
         "", <<>>)

BodyRegexResult(regex) ==
  Result("No match found in commit message for the regular expression provided: %s",
         regex.src, <<>>)

LongLinesResult(body_line_length) ==
  Result("Body of HEAD commit contains too long lines. Commit body lines should not exceed {} characters.",
         "", Decimal(body_line_length))

\* mutation of check_body: the checks go on after the missing newline
check_body_NoReturn(text, kw) ==
  IF Len(text) = 0
  THEN Outcome(IF kw.force_body THEN <<NoBodyResult>> ELSE <<>>, FALSE)
  ELSE
    LET lines == splitlines(text)
        ignored(line) ==
          \E n \in 1..Len(kw.ignore_length_regex) :
            search(kw.ignore_length_regex[n].re, line, 0).ok
    IN Outcome(
         (IF text[1] # "\n" THEN <<NoNewlineResult>> ELSE <<>>)
         \o (IF kw.body_regex.src # ""
                /\ ~fullmatch(kw.body_regex.re, strip(text)).ok
             THEN <<BodyRegexResult(kw.body_regex)>> ELSE <<>>)
         \o (IF \E n \in 2..Len(lines) :
                  Len(lines[n]) > kw.body_line_length /\ ~ignored(lines[n])
             THEN <<LongLinesResult(kw.body_line_length)>> ELSE <<>>),
         FALSE)

check_body(text, kw) ==
  IF Len(text) = 0
  THEN Outcome(IF kw.force_body THEN <<NoBodyResult>> ELSE <<>>, FALSE)
  ELSE IF text[1] # "\n"
  THEN Outcome(<<NoNewlineResult>>, FALSE)
  ELSE
    LET lines == splitlines(text)
        ignored(line) ==
          \E n \in 1..Len(kw.ignore_length_regex) :
            search(kw.ignore_length_regex[n].re, line, 0).ok
    IN Outcome(
         (IF kw.body_regex.src # ""
             /\ ~fullmatch(kw.body_regex.re, strip(text)).ok
          THEN <<BodyRegexResult(kw.body_regex)>> ELSE <<>>)
         \o (IF \E n \in 2..Len(lines) :
                  Len(lines[n]) > kw.body_line_length /\ ~ignored(lines[n])
             THEN <<LongLinesResult(kw.body_line_length)>> ELSE <<>>),
         FALSE)

(***************************************************************************)
(* run                                                                     *)
(***************************************************************************)
\* str.rstrip('\n')
rstrip_newlines(s) ==
  LET keep == {p \in 1..Len(s) : s[p] # "\n"}
  IN IF keep = {} THEN <<>>
     ELSE SubSeq(s, 1, CHOOSE p \in keep : \A q \in keep : q <= p)

\* repr() of a text: quoted, with line breaks and backslashes escaped; the
\* quote is ' unless the text has a ' and no "
repr(s) ==
  LET quote == IF Contains(s, <<"'">>) /\ ~Contains(s, <<"\"">>)
               THEN "\"" ELSE "'"
      esc(c) == CASE c = "\n" -> <<"\\", "n">>
                  [] c = "\r" -> <<"\\", "r">>
                  [] c = "\\" -> <<"\\", "\\">>
                  [] c = quote -> <<"\\", c>>
                  [] OTHER -> <<c>>
  IN <<quote>> \o Flatten([n \in 1..Len(s) |-> esc(s[n])]) \o <<quote>>

\* 'git:' / 'hg:'
ErrPrefix(be) == IF be = "git" THEN "git:" ELSE "hg:"

EmptyMessageResult == Result("HEAD commit has no message.", "", <<>>)

\* mutation of RunErrCheck: the error is reported and the checks go on
RunErrCheck_GoesOn ==
  /\ rpc = "start"
  /\ err' = IF Len(stderr) # 0
            THEN Append(err, [prefix |-> ErrPrefix(backend), text |-> repr(stderr)])
            ELSE err
  /\ rpc' = "split"
  /\ UNCHANGED <<stdout, stderr, allow_empty_commit_message, kwargs, tagger,
                 shortlog, setup_vars, params, pc, host, body, matches, mi,
                 issues, ii, results, steps>>

\* if stderr: self.err(...); return
RunErrCheck ==
  /\ rpc = "start"
  /\ IF Len(stderr) # 0
     THEN /\ err' = Append(err, [prefix |-> ErrPrefix(backend),
                                 text |-> repr(stderr)])
          /\ rpc' = "done"
     ELSE /\ err' = err
          /\ rpc' = "split"
  /\ UNCHANGED <<stdout, stderr, allow_empty_commit_message, kwargs, tagger,
                 shortlog, setup_vars, params, pc, host, body, matches, mi,
                 issues, ii, results, steps>>

\* mutation of RunSplit: an empty message goes on to the checks
RunSplit_NoEmptyReturn ==
  /\ rpc = "split"
  /\ stdout' = rstrip_newlines(stdout)
  /\ LET pos == Find(stdout', "\n")
     IN /\ shortlog' = IF pos # 0 - 1 THEN Slice(stdout', 0, pos) ELSE stdout'
        /\ arg_body' = IF pos # 0 - 1
                       THEN Slice(stdout', pos + 1, Len(stdout')) ELSE <<>>
  /\ results' = IF Len(stdout') = 0 /\ ~allow_empty_commit_message
                THEN Append(results, EmptyMessageResult) ELSE results
  /\ rpc' = "shortlog"
  /\ UNCHANGED <<stderr, allow_empty_commit_message, kwargs, tagger, err,
                 setup_vars, backend, remotes_out, body_close_issue,
                 body_close_issue_full_url, body_close_issue_on_last_line,
                 body_enforce_issue_reference, pc, host, body, matches, mi,
                 issues, ii, steps>>

\* stdout.rstrip, the split into shortlog and body, the empty message
RunSplit ==
  /\ rpc = "split"
  /\ stdout' = rstrip_newlines(stdout)
  /\ LET pos == Find(stdout', "\n")
     IN /\ shortlog' = IF pos # 0 - 1 THEN Slice(stdout', 0, pos) ELSE stdout'
        /\ arg_body' = IF pos # 0 - 1
                       THEN Slice(stdout', pos + 1, Len(stdout')) ELSE <<>>
  /\ IF Len(stdout') = 0
     THEN /\ results' = IF allow_empty_commit_message THEN results
                        ELSE Append(results, EmptyMessageResult)
          /\ rpc' = "done"
     ELSE /\ results' = results
          /\ rpc' = "shortlog"
  /\ UNCHANGED <<stderr, allow_empty_commit_message, kwargs, tagger, err,
                 setup_vars, backend, remotes_out, body_close_issue,
                 body_close_issue_full_url, body_close_issue_on_last_line,
                 body_enforce_issue_reference, pc, host, body, matches, mi,
                 issues, ii, steps>>

\* yield from self.check_shortlog(shortlog, ...)
RunShortlog ==
  /\ rpc = "shortlog"
  /\ LET out == check_shortlog(shortlog, kwargs, tagger)
     IN /\ results' = results \o out.yield
        /\ rpc' = IF out.raised THEN "raised" ELSE "body"
  /\ steps' = Append(steps, "check_shortlog")
  /\ UNCHANGED <<stdout, stderr, allow_empty_commit_message, kwargs, tagger,
                 shortlog, err, setup_vars, params, pc, host, body, matches,
                 mi, issues, ii>>

\* yield from self.check_body(body, ...), and the call of
\* check_issue_reference with the same body
RunBody ==
  /\ rpc = "body"
  /\ results' = results \o check_body(arg_body, kwargs).yield
  /\ steps' = Append(steps, "check_body")
  /\ rpc' = "issue"
  /\ pc' = "start"
  /\ body' = arg_body
  /\ UNCHANGED <<stdout, stderr, allow_empty_commit_message, kwargs, tagger,
                 shortlog, err, setup_vars, params, host, matches, mi, issues,
                 ii>>

\* check_issue_reference has ended, and so does run
RunReturn ==
  /\ rpc = "issue"
  /\ pc \in {"done", "raised"}
  /\ rpc' = pc
  /\ UNCHANGED <<stdout, stderr, allow_empty_commit_message, kwargs, tagger,
                 shortlog, err, setup_vars, params, pc, host, body, matches,
                 mi, issues, ii, results, steps>>

\* check_issue_reference has not been called
IssueIdle ==
  /\ arg_body = <<>>
  /\ pc = "idle"
  /\ host = Unset
  /\ body = <<>>
  /\ matches = <<>>
  /\ mi = 0
  /\ issues = <<>>
  /\ ii = 0
  /\ results = <<>>
  /\ steps = <<>>

\* what the log command prints: no message, one line, a shortlog and a
\* body with and without the empty line between them, an empty shortlog
Messages ==
  {<<>>,
   <<"\n">>,
   <<"\n", "\n">>,
   <<"A", "d", "d", " ", "x", "\n">>,
   <<"A", "d", "d", " ", "x", "\n", "\n", "F", "i", "x", " ", "#", "1", "\n">>,
   <<"A", "d", "d", " ", "x", "\n", "\n", "F", "i", "x", " ", "#", "0">>,
   <<"A", "d", "d", " ", "x", "\n", "a", "b">>,
   <<"A", "d", "d", " ", "x", "\n", "F", "i", "x", " ", "#", "0">>,
   <<"W", "I", "P", ":", " ", "y", "\n">>,
   <<"\n", "a", "b", "\n">>,
   <<" ", "\n">>}

ErrorTexts == {<<>>, <<"f", "a", "t", "a", "l", ":", " ", "n", "o", " ", "r", "e", "p", "o", "\n">>}

\* a limit that the lines of some bodies exceed
BodyLimit == 3

\* [a-z ]*
LowerRegex == RegexSetting("[a-z ]*", Star(Chr(LowerLetters \cup {" "})))

\* #1
IgnoreRegex == RegexSetting("#1", Str(<<"#", "1">>))

\* the settings of check_body: the defaults, a line limit with a body
\* regex, and the same with a regex for the lines to ignore
BodySettings ==
  {[body_line_length |-> DefaultKwargs.body_line_length,
    ignore_length_regex |-> <<>>, body_regex |-> NoRegex],
   [body_line_length |-> BodyLimit,
    ignore_length_regex |-> <<>>, body_regex |-> LowerRegex],
   [body_line_length |-> BodyLimit,
    ignore_length_regex |-> <<IgnoreRegex>>, body_regex |-> LowerRegex]}

\* the settings given to run
RunKwargs ==
  {[DefaultKwargs EXCEPT !.shortlog_imperative_check = i, !.force_body = f,
                         !.body_line_length = b.body_line_length,
                         !.ignore_length_regex = b.ignore_length_regex,
                         !.body_regex = b.body_regex] :
     i \in BOOLEAN, f \in BOOLEAN, b \in BodySettings}

Tags == {"VB", "VBD"}

InitRun ==
  /\ backend \in {"git", "hg"}
  /\ remotes_out \in RemoteOutputs(backend)
  /\ body_close_issue \in BOOLEAN
  /\ body_close_issue_full_url = FALSE
  /\ body_close_issue_on_last_line \in BOOLEAN
  /\ body_enforce_issue_reference \in BOOLEAN
  /\ IssueIdle
  /\ stdout \in Messages
  /\ stderr \in ErrorTexts
  /\ allow_empty_commit_message \in BOOLEAN
  /\ kwargs \in RunKwargs
  /\ tagger \in Tags
  /\ rpc = "start"
  /\ shortlog = <<>>
  /\ err = <<>>
  /\ SetupIdle

NextRun ==
  \/ RunErrCheck
  \/ RunSplit
  \/ RunShortlog
  \/ RunBody
  \/ CheckEnabled
  \/ ResolveHost
  \/ CheckHost
  \/ SelectLine
  \/ Extract
  \/ NextMatch
  \/ NextIssue
  \/ RunReturn

SpecRun == InitRun /\ [][NextRun]_vars

(***************************************************************************)
(* check_issue_reference over the remotes: standard URLs with and without  *)
(* a user, a port and upper-case letters, the ssh forms, a local path,     *)
(* and listings of no, one and two remotes                                 *)
(***************************************************************************)
RemoteUrls(be) ==
  IF be = "git"
  THEN {<<"h", "t", "t", "p", "s", ":", "/", "/", "g", "i", "t", "h", "u", "b", ".", "c", "o", "m", "/", "o", "/", "r">>,
        <<"h", "t", "t", "p", "s", ":", "/", "/", "u", "s", "e", "r", "@", "g", "i", "t", "h", "u", "b", ".", "c", "o", "m", "/", "o", "/", "r">>,
        <<"h", "t", "t", "p", "s", ":", "/", "/", "G", "i", "t", "H", "u", "b", ".", "c", "o", "m", "/", "o", "/", "r">>,
        <<"g", "i", "t", "@", "g", "i", "t", "h", "u", "b", ".", "c", "o", "m", ":", "o", "/", "r">>,
        <<"s", "s", "h", ":", "/", "/", "g", "i", "t", "@", "g", "i", "t", "h", "u", "b", ".", "c", "o", "m", "/", "o", "/", "r">>,
        <<"h", "t", "t", "p", "s", ":", "/", "/", "g", "i", "t", "l", "a", "b", ".", "c", "o", "m", ":", "4", "4", "3", "/", "o", "/", "r">>,
        <<"h", "t", "t", "p", "s", ":", "/", "/", "e", "x", "a", "m", "p", "l", "e", ".", "o", "r", "g", "/", "r">>,
        <<"/", "s", "r", "v", "/", "r", ".", "g", "i", "t">>}
  ELSE {<<"h", "t", "t", "p", "s", ":", "/", "/", "b", "i", "t", "b", "u", "c", "k", "e", "t", ".", "o", "r", "g", "/", "o", "/", "r">>,
        <<"h", "t", "t", "p", "s", ":", "/", "/", "u", "s", "e", "r", "@", "b", "i", "t", "b", "u", "c", "k", "e", "t", ".", "o", "r", "g", "/", "o", "/", "r">>,
        <<"h", "t", "t", "p", "s", ":", "/", "/", "B", "i", "t", "b", "u", "c", "k", "e", "t", ".", "o", "r", "g", "/", "o", "/", "r">>,
        <<"s", "s", "h", ":", "/", "/", "h", "g", "@", "b", "i", "t", "b", "u", "c", "k", "e", "t", ".", "o", "r", "g", "/", "o", "/", "r">>,
        <<"s", "s", "h", ":", "/", "/", "h", "g", "@", "l", "o", "c", "a", "l", "h", "o", "s", "t", "/", "r">>,
        <<"h", "t", "t", "p", ":", "/", "/", "h", "g", ".", "s", "v", ".", "g", "n", "u", ".", "o", "r", "g", "/", "p">>,
        <<"/", "s", "r", "v", "/", "r">>}

\* the second remote of a listing
SecondUrls(be) ==
  IF be = "git"
  THEN {<<"h", "t", "t", "p", "s", ":", "/", "/", "g", "i", "t", "l", "a", "b", ".", "c", "o", "m", "/", "o", "/", "r">>}
  ELSE {<<"h", "t", "t", "p", "s", ":", "/", "/", "b", "i", "t", "b", "u", "c", "k", "e", "t", ".", "o", "r", "g", "/", "u", "/", "r">>}

\* one line of the listing: the name of the remote and its URL
RemoteLine(be, name, url) ==
  (IF be = "git"
   THEN <<"r", "e", "m", "o", "t", "e", ".">> \o name \o <<".", "u", "r", "l", " ">>
   ELSE name \o <<" ", "=", " ">>) \o url \o NL

RemoteListings(be) ==
  {<<>>}
    \cup {RemoteLine(be, <<"o">>, u) : u \in RemoteUrls(be)}
    \cup {RemoteLine(be, <<"o">>, u) \o RemoteLine(be, <<"u">>, v) :
            u \in RemoteUrls(be), v \in SecondUrls(be)}

HostBodies == {FIX \o SP \o <<"#", "1">>, FIX \o SP \o <<"#", "0">>, <<"a", "b">>}

InitHost ==
  /\ RunIdle
  /\ SetupIdle
  /\ backend \in {"git", "hg"}
  /\ remotes_out \in RemoteListings(backend)
  /\ arg_body \in HostBodies
  /\ body_close_issue \in BOOLEAN
  /\ body_close_issue_full_url = FALSE
  /\ body_close_issue_on_last_line = FALSE
  /\ body_enforce_issue_reference \in BOOLEAN
  /\ pc = "start"
  /\ host = Unset
  /\ body = arg_body
  /\ matches = <<>>
  /\ mi = 0
  /\ issues = <<>>
  /\ ii = 0
  /\ results = <<>>
  /\ steps = <<>>

SpecHost == InitHost /\ [][Next]_vars

(***************************************************************************)
(* run over the shortlog: one-line messages with and without a tag before  *)
(* a colon, a WIP mark and a final period, and the settings of             *)
(* check_shortlog                                                          *)
(***************************************************************************)
Shortlogs ==
  {<<"W", "I", "P", ":", " ", "A", "d", "d", " ", "x">>,
   <<"w", "i", "p">>,
   <<"[", "w", "i", "p", "]", " ", "A", "d", "d">>,
   <<"A", "d", "d", " ", "w", "i", "p", " ", "x">>,
   <<"a", "W", "I", "P", " ", "x">>,
   <<"A", "d", "d", ":", " ", "W", "I", "P", " ", "x">>,
   <<"A", "d", "d", " ", "x", ".">>,
   <<"A", "d", "d", "i", "n", "g", " ", "x">>,
   <<"t", "a", "g", ":">>,
   <<"t", "a", "g", ":", " ", "F", "i", "x", " ", "y", ".">>,
   <<"W", "i">>}

\* a limit that some of the shortlogs exceed
ShortLimit == 5

\* [^:]+: .*
TagRegex ==
  RegexSetting("[^:]+: .*",
               CatAll(<<Plus(NotChr({":"})), Str(<<":", " ">>),
                        Star(NotChr({"\n"}))>>))

ShortlogKwargs ==
  {[DefaultKwargs EXCEPT !.shortlog_length = l,
                         !.shortlog_regex = r,
                         !.shortlog_trailing_period = p,
                         !.shortlog_imperative_check = i,
                         !.shortlog_wip_check = w] :
     l \in {DefaultKwargs.shortlog_length, ShortLimit},
     r \in {NoRegex, TagRegex},
     p \in {"True", "False", "None"},
     i \in BOOLEAN,
     w \in {"True", "False", "None"}}

\* the message is the shortlog, or the shortlog and a body
ShortlogMessages ==
  {t \o e : t \in Shortlogs, e \in {<<>>, NL}}
    \cup {t \o NL \o NL \o FIX \o SP \o <<"#", "0">> :
            t \in {<<"W", "I", "P", ":", " ", "A", "d", "d", " ", "x">>, <<"A", "d", "d", " ", "x", ".">>}}

InitShortlog ==
  /\ backend = "git"
  /\ remotes_out = RemoteLine("git", <<"o">>, HTTPS \o GITHUB \o <<".", "c", "o", "m", "/", "o", "/", "r">>)
  /\ body_close_issue \in BOOLEAN
  /\ body_close_issue_full_url = FALSE
  /\ body_close_issue_on_last_line = FALSE
  /\ body_enforce_issue_reference = FALSE
  /\ IssueIdle
  /\ stdout \in ShortlogMessages
  /\ stderr = <<>>
  /\ allow_empty_commit_message = FALSE
  /\ kwargs \in ShortlogKwargs
  /\ tagger \in Tags
  /\ rpc = "start"
  /\ shortlog = <<>>
  /\ err = <<>>
  /\ SetupIdle

SpecShortlog == InitShortlog /\ [][NextRun]_vars

(***************************************************************************)
(* setup_dependencies, which runs when a bear is constructed.  A bear is   *)
(* its class, the shortlog_imperative_check setting of its section and     *)
(* its position: "check" before the test of line 22, "download" before     *)
(* nltk.download, "downloading" during it, "set" before the assignment of  *)
(* line 28, "returned" after setup_dependencies.                           *)
(***************************************************************************)
MaxBears == 3

BearClasses == {"GitCommitBear", "HgCommitBear"}

\* the setting in the section: 'True', 'False' or not there
SectionSettings == {"True", "False", "absent"}

\* self._nltk_data_downloaded: the attribute of the bear's class if that
\* class has one of its own, else the one of _CommitBear
Attr(class) ==
  IF nltk_data_downloaded[class] # "unset" THEN nltk_data_downloaded[class]
  ELSE nltk_data_downloaded["_CommitBear"]

\* bool(self.section.get('shortlog_imperative_check', True))
ImperativeSetting(setting) == setting # "False"

\* neither run nor check_issue_reference is called
NoCall ==
  /\ RunIdle
  /\ backend = "git"
  /\ remotes_out = <<>>
  /\ body_close_issue = FALSE
  /\ body_close_issue_full_url = FALSE
  /\ body_close_issue_on_last_line = FALSE
  /\ body_enforce_issue_reference = FALSE
  /\ IssueIdle

InitSetup == NoCall /\ SetupIdle

\* a bear is constructed and its setup_dependencies is called
NewBear ==
  /\ Len(bears) < MaxBears
  /\ \E class \in BearClasses, setting \in SectionSettings :
       bears' = Append(bears, [class |-> class, setting |-> setting,
                               pc |-> "check", saw |-> "unset",
                               downloaded |-> FALSE])
  /\ UNCHANGED <<nltk_data_downloaded, downloads, run_vars, params, pc, host,
                 body, matches, mi, issues, ii, results, steps>>

\* the same, when bears are constructed one after the other
NewBearInTurn ==
  /\ \A n \in 1..Len(bears) : bears[n].pc = "returned"
  /\ NewBear

\* mutation of SetupCheck: the setting of the section is not looked at
SetupCheck_IgnoresSetting ==
  /\ \E n \in 1..Len(bears) :
       /\ bears[n].pc = "check"
       /\ bears' = [bears EXCEPT
                      ![n].saw = Attr(bears[n].class),
                      ![n].pc = IF Attr(bears[n].class) # "True"
                                THEN "download" ELSE "returned"]
  /\ UNCHANGED <<nltk_data_downloaded, downloads, run_vars, params, pc, host,
                 body, matches, mi, issues, ii, results, steps>>

\* if not self._nltk_data_downloaded and bool(self.section.get(...))
SetupCheck ==
  /\ \E n \in 1..Len(bears) :
       /\ bears[n].pc = "check"
       /\ bears' = [bears EXCEPT
                      ![n].saw = Attr(bears[n].class),
                      ![n].pc = IF Attr(bears[n].class) # "True"
                                   /\ ImperativeSetting(bears[n].setting)
                                THEN "download" ELSE "returned"]
  /\ UNCHANGED <<nltk_data_downloaded, downloads, run_vars, params, pc, host,
                 body, matches, mi, issues, ii, results, steps>>

\* mutation of DownloadBegin: the attribute is set before the download
DownloadBegin_SetsFlag ==
  /\ \E n \in 1..Len(bears) :
       /\ bears[n].pc = "download"
       /\ bears' = [bears EXCEPT ![n].pc = "downloading"]
       /\ nltk_data_downloaded' =
            [nltk_data_downloaded EXCEPT ![bears[n].class] = "True"]
  /\ downloads' = [downloads EXCEPT !.begun = @ + 1]
  /\ UNCHANGED <<run_vars, params, pc, host, body, matches, mi, issues, ii,
                 results, steps>>

\* nltk.download([...]) is called
DownloadBegin ==
  /\ \E n \in 1..Len(bears) :
       /\ bears[n].pc = "download"
       /\ bears' = [bears EXCEPT ![n].pc = "downloading"]
  /\ downloads' = [downloads EXCEPT !.begun = @ + 1]
  /\ UNCHANGED <<nltk_data_downloaded, run_vars, params, pc, host, body,
                 matches, mi, issues, ii, results, steps>>

\* nltk.download([...]) comes back
DownloadEnd ==
  /\ \E n \in 1..Len(bears) :
       /\ bears[n].pc = "downloading"
       /\ bears' = [bears EXCEPT ![n].pc = "set", ![n].downloaded = TRUE]
  /\ downloads' = [downloads EXCEPT !.finished = @ + 1]
  /\ UNCHANGED <<nltk_data_downloaded, run_vars, params, pc, host, body,
                 matches, mi, issues, ii, results, steps>>

\* type(self)._nltk_data_downloaded = True
SetFlag ==
  /\ \E n \in 1..Len(bears) :
       /\ bears[n].pc = "set"
       /\ bears' = [bears EXCEPT ![n].pc = "returned"]
       /\ nltk_data_downloaded' =
            [nltk_data_downloaded EXCEPT ![bears[n].class] = "True"]
  /\ UNCHANGED <<downloads, run_vars, params, pc, host, body, matches, mi,
                 issues, ii, results, steps>>

\* bears constructed one after the other
NextSetup ==
  \/ NewBearInTurn
  \/ SetupCheck
  \/ DownloadBegin
  \/ DownloadEnd
  \/ SetFlag

SpecSetup == InitSetup /\ [][NextSetup]_vars

\* bears constructed by concurrent threads
NextSetupRace ==
  \/ NewBear
  \/ SetupCheck
  \/ DownloadBegin
  \/ DownloadEnd
  \/ SetFlag

SpecSetupRace == InitSetup /\ [][NextSetupRace]_vars

(***************************************************************************)
(* Vocabulary of the properties.  These describe texts by their structure  *)
(* and do not use the matcher.                                             *)
(***************************************************************************)
Done == pc = "done"

\* the hosts each backend's registry lists
RegistryHosts == [git |-> {GITHUB, GITLAB}, hg |-> {BITBUCKET}]

HostSupported == host.kind = "str" /\ host.v \in RegistryHosts[backend]

\* the call ended normally after the host was found in the registry
Scanned == Done /\ body_close_issue /\ HostSupported

NoReferenceFormats ==
  {"Body of HEAD commit does not contain any {} reference in the last line.",
   "Body of HEAD commit does not contain any {} reference."}

NoReferenceResult ==
  Result(IF body_close_issue_on_last_line
         THEN "Body of HEAD commit does not contain any {} reference in the last line."
         ELSE "Body of HEAD commit does not contain any {} reference.",
         IF body_close_issue_full_url THEN "full issue" ELSE "issue", <<>>)

StartsWith(s, w) == Len(w) <= Len(s) /\ SubSeq(s, 1, Len(w)) = w

\* 'Fix ' followed by one text without whitespace and commas
IsTokenBody(b) ==
  /\ Len(b) > 4
  /\ StartsWith(b, FIX \o SP)
  /\ \A p \in 5..Len(b) : b[p] \notin Whitespace \cup {","}

TokenOf(b) == SubSeq(b, 5, Len(b))

\* owner/repo: two non-empty words around one slash
IsOwnerRepo(w) ==
  \E q \in 2..(Len(w) - 1) :
    /\ w[q] = "/"
    /\ \A n \in (1..Len(w)) \ {q} : w[n] \in WordChars

\* '#X' or 'owner/repo#X', X possibly empty
IsShortForm(tok) ==
  LET h == Find(tok, "#")
  IN h >= 0 /\ (h = 0 \/ IsOwnerRepo(Slice(tok, 0, h)))

\* the X of '#X' or 'owner/repo#X'
NumberOf(tok) == Slice(tok, Find(tok, "#") + 1, Len(tok))

\* digits only, non-empty, no leading zero
IsIssueNumber(x) ==
  /\ Len(x) > 0
  /\ x[1] \in Digits \ {"0"}
  /\ \A n \in 1..Len(x) : x[n] \in Digits

\* http(s)://<host><something>/issues/<X>, for hg followed by /<something>
IsFullForm(be, h, tok) ==
  \E pre \in {<<"h", "t", "t", "p", ":", "/", "/">>, <<"h", "t", "t", "p", "s", ":", "/", "/">>} :
    /\ StartsWith(tok, pre \o h)
    /\ \E p \in (Len(pre) + Len(h) + 1)..Len(tok) :
         /\ p + Len(ISSUES) <= Len(tok)
         /\ Slice(tok, p, p + Len(ISSUES)) = ISSUES
         /\ IF be = "hg"
            THEN \E q \in (p + Len(ISSUES) + 2)..(Len(tok) - 1) : tok[q] = "/"
            ELSE Len(tok) > p + Len(ISSUES)

\* the token has the shape the configuration asks for
HasShape(tok) ==
  IF body_close_issue_full_url THEN IsFullForm(backend, host.v, tok)
  ELSE IsShortForm(tok) /\ Len(NumberOf(tok)) > 0

\* the texts occur in s one after the other, from offset from on
RECURSIVE InOrder(_, _, _)
InOrder(texts, s, from) ==
  IF Len(texts) = 0 THEN TRUE
  ELSE LET occ == {p \in from..(Len(s) - Len(texts[1])) :
                     Slice(s, p, p + Len(texts[1])) = texts[1]}
       IN occ # {} /\ InOrder(Tail(texts), s, Least(occ) + Len(texts[1]))

\* the closing keywords of the dialect of the resolved host
KeywordWords ==
  LET stems == {<<c>> \o w : c \in {"C", "c"}, w \in {<<"l", "o", "s">>}}
                 \cup {<<c>> \o w : c \in {"R", "r"}, w \in {<<"e", "s", "o", "l", "v">>}}
      fixes == {<<c, "i", "x">> : c \in {"F", "f"}}
      ing == IF host.v = GITHUB THEN {} ELSE {<<"i", "n", "g">>}
  IN {st \o e : st \in stems, e \in {<<"e">>, <<"e", "s">>, <<"e", "d">>} \cup ing}
       \cup {f \o e : f \in fixes, e \in {<<>>, <<"e", "s">>, <<"e", "d">>} \cup ing}

\* the number of calls of the given kind made so far
Calls(kind) == Cardinality({n \in 1..Len(steps) : steps[n] = kind})

(***************************************************************************)
(* Properties                                                              *)
(***************************************************************************)
\* a body 'Fix <token>' with a token '#X' or 'owner/repo#X' was checked in
\* short-reference mode on a supported host
ShortTokenChecked ==
  /\ Scanned
  /\ ~body_close_issue_full_url
  /\ IsTokenBody(arg_body)
  /\ IsShortForm(TokenOf(arg_body))

\* C1 as stated: in short-reference mode a token '#X' or 'owner/repo#X'
\* yields no result if X is a number without leading zero and exactly one
\* 'Invalid issue number: <token>' for every other X, the empty X included.
C1_AnyNumberText ==
  ShortTokenChecked =>
    results = IF IsIssueNumber(NumberOf(TokenOf(arg_body))) THEN <<>>
              ELSE <<InvalidNumberResult(TokenOf(arg_body))>>

\* C1 amended: the same for every non-empty X; a token that ends with '#'
\* (empty X) is not covered, it yields 'Invalid issue reference'.
C1_NumberSyntax ==
  ShortTokenChecked /\ Len(NumberOf(TokenOf(arg_body))) > 0 =>
    results = IF IsIssueNumber(NumberOf(TokenOf(arg_body))) THEN <<>>
              ELSE <<InvalidNumberResult(TokenOf(arg_body))>>

\* 'Fix o/r#01' was checked and reported as an invalid issue number
C1_Witness ==
  /\ ShortTokenChecked
  /\ arg_body = FIX \o SP \o <<"o", "/", "r", "#", "0", "1">>
  /\ results = <<InvalidNumberResult(<<"o", "/", "r", "#", "0", "1">>)>>

\* C2: a token that does not have the configured shape yields exactly one
\* 'Invalid issue reference' / 'Invalid full issue reference' result that
\* carries the token unchanged, and no 'Invalid issue number' result.
C2_InvalidReference ==
  Scanned /\ IsTokenBody(arg_body) /\ ~HasShape(TokenOf(arg_body)) =>
    results = <<Result("Invalid {} reference: {}",
                       IF body_close_issue_full_url THEN "full issue"
                       ELSE "issue",
                       TokenOf(arg_body))>>

\* 'Fix o#3' in short mode and 'Fix #1' in full-URL mode were reported
C2_Witness ==
  /\ Scanned
  /\ \/ /\ ~body_close_issue_full_url
        /\ arg_body = FIX \o SP \o <<"o", "#", "3">>
        /\ results = <<Result("Invalid {} reference: {}", "issue", <<"o", "#", "3">>)>>
     \/ /\ body_close_issue_full_url
        /\ arg_body = FIX \o SP \o <<"#", "1">>
        /\ results = <<Result("Invalid {} reference: {}", "full issue", <<"#", "1">>)>>

\* the results the tokens of all phrases give, phrase by phrase
VerdictsInOrder ==
  Flatten([m \in 1..Len(matches) |->
    LET toks == SplitMatch(matches[m])
    IN Flatten([n \in 1..Len(toks) |->
         CheckIssue(backend, body_close_issue_full_url, host.v, toks[n])])])

\* C3: after the loops the results are exactly the results of the invalid
\* tokens, one each, phrase by phrase and token by token, and their texts
\* occur in the scanned body from left to right.
C3_OnePerInvalidToken ==
  Scanned /\ Len(matches) > 0 =>
    /\ results = VerdictsInOrder
    /\ InOrder([n \in 1..Len(results) |-> results[n].text], body, 0)

\* two different invalid tokens of two phrases were reported in body order
C3_Witness ==
  /\ Scanned
  /\ Len(matches) = 2
  /\ Len(results) = 2
  /\ results[1].text = <<"#", "0">>
  /\ results[2].text = <<"#", "0", "0">>

\* the scanned body is 'Fix <r1><conjunction><keyword> <r2>'
IsTwoKeywordBody(r1, c, k2, r2) == body = FIX \o SP \o r1 \o c \o k2 \o SP \o r2

\* C4: a conjunction followed by another keyword of the dialect ends the
\* first phrase before the conjunction, and the second keyword opens its
\* own phrase; each of the two references is validated exactly once.
C4_NewKeywordEndsPhrase ==
  Scanned =>
    \A r1 \in {<<"#", "1">>, <<"#", "0">>}, r2 \in {<<"#", "2">>, <<"#", "0", "0">>},
       c \in Conjs \cup {<<",">>, <<"\n", "a", "n", "d", " ">>}, k2 \in KeywordWords :
      IsTwoKeywordBody(r1, c, k2, r2) =>
        /\ matches = <<r1, r2>>
        /\ Calls("fullmatch") = 2
        /\ Calls("split") = 2

\* 'Fix #1 and Resolve #2' gave the two phrases '#1' and '#2'
C4_Witness ==
  /\ Scanned
  /\ body = FIX \o SP \o <<"#", "1">> \o <<" ", "a", "n", "d", " ">> \o RESOLVE \o SP \o <<"#", "2">>
  /\ matches = <<<<"#", "1">>, <<"#", "2">>>>
  /\ results = <<>>

\* the maximal runs of characters of s that are not in seps
RECURSIVE Runs(_, _)
Runs(s, seps) ==
  LET starts == {p \in 1..Len(s) : s[p] \notin seps}
  IN IF starts = {} THEN <<>>
     ELSE LET b == Least(starts)
              e == Least({p \in b..Len(s) : p = Len(s) \/ s[p + 1] \in seps})
          IN <<SubSeq(s, b, e)>> \o Runs(SubSeq(s, e + 1, Len(s)), seps)

\* the references of a list: its words other than the conjunction 'and'
RefsOf(l) ==
  SelectSeq(Runs(l, Whitespace \cup {","}), LAMBDA w : w # <<"a", "n", "d">>)

\* the scanned body is 'Fix ' and references joined by conjunctions
IsListBody(b) ==
  /\ StartsWith(b, FIX \o SP)
  /\ SubSeq(b, 5, Len(b)) \in UNION {Lists(k) : k \in 0..MaxConj}

\* C5 as stated: one keyword followed by references joined by conjunctions
\* is extracted as one phrase, and the phrase is split into exactly those
\* references in order.
C5_ListIsOnePhrase ==
  Scanned /\ IsListBody(body) =>
    /\ matches = <<SubSeq(body, 5, Len(body))>>
    /\ issues = RefsOf(SubSeq(body, 5, Len(body)))
    /\ Calls("fullmatch") = Len(RefsOf(SubSeq(body, 5, Len(body))))

\* no closing keyword of the dialect occurs anywhere in the text
NoKeywordIn(b) == \A w \in KeywordWords : ~Contains(b, w)

\* C6: without a phrase, enforcement yields exactly the one 'does not
\* contain any ... reference' result and no enforcement yields nothing;
\* with a phrase that result is never yielded.  A text without any keyword
\* has no phrase.
C6_Enforcement ==
  Scanned =>
    /\ Len(matches) = 0 /\ body_enforce_issue_reference =>
         results = <<NoReferenceResult>>
    /\ Len(matches) = 0 /\ ~body_enforce_issue_reference => results = <<>>
    /\ Len(matches) > 0 =>
         \A n \in 1..Len(results) : results[n].fmt \notin NoReferenceFormats
    /\ NoKeywordIn(body) => Len(matches) = 0

\* with enforcement on, the keyword-free body 'ab cd' gave the one result
C6_Witness ==
  /\ Scanned
  /\ body_enforce_issue_reference
  /\ arg_body = <<"a", "b", " ", "c", "d">>
  /\ results = <<NoReferenceResult>>

\* C7: with body_close_issue off nothing is yielded and nothing is done:
\* no host resolution, no extraction, no validation.
C7_DisabledDoesNothing ==
  ~body_close_issue =>
    /\ results = <<>>
    /\ steps = <<>>
    /\ host = Unset
    /\ matches = <<>>
    /\ body = arg_body
    /\ pc \in {"start", "done"}

\* the call ended for 'Fix #0' with every other flag on
C7_Witness ==
  /\ Done
  /\ ~body_close_issue
  /\ body_close_issue_full_url
  /\ body_close_issue_on_last_line
  /\ body_enforce_issue_reference
  /\ arg_body = FIX \o SP \o <<"#", "0">>

\* C8: with a host that is not in the registry the call ends after host
\* resolution, before any extraction: hg yields exactly one result ('No
\* host configured in path.' when there is no remote, 'Un-supported host
\* in path.' otherwise), git yields nothing.
C8_UnsupportedHost ==
  Done /\ body_close_issue /\ ~HostSupported =>
    /\ steps = <<"get_host_from_remotes">>
    /\ matches = <<>>
    /\ results =
         IF backend = "git" THEN <<>>
         ELSE IF remotes_out = <<>>
         THEN <<Result("No host configured in path.", "", <<>>)>>
         ELSE <<Result("Un-supported host in path.", "", <<>>)>>

\* hg with an unsupported remote, full-URL checking and enforcement on
C8_Witness ==
  /\ Done
  /\ backend = "hg"
  /\ body_close_issue_full_url
  /\ body_enforce_issue_reference
  /\ remotes_out # <<>>
  /\ arg_body = FIX \o SP \o <<"#", "0">>
  /\ results = <<Result("Un-supported host in path.", "", <<>>)>>

\* the final line: what follows the last line break, a line break at the
\* very end not counted
FinalLine(b) ==
  LET t == IF Len(b) > 0 /\ b[Len(b)] = "\n" THEN SubSeq(b, 1, Len(b) - 1)
           ELSE b
  IN AfterLast(t, "\n")

\* what a line 'Fix <token>' must yield, by the structure of the token
LineVerdict(line) ==
  IF ~IsTokenBody(line) THEN <<>>
  ELSE IF ~HasShape(TokenOf(line))
  THEN <<Result("Invalid {} reference: {}",
                IF body_close_issue_full_url THEN "full issue" ELSE "issue",
                TokenOf(line))>>
  ELSE IF ~IsIssueNumber(NumberOf(TokenOf(line)))
  THEN <<Result("Invalid issue number: {}", "", TokenOf(line))>>
  ELSE <<>>

\* what scanning the given lines must yield
LinesVerdict(ls) ==
  IF \A n \in 1..Len(ls) : ~IsTokenBody(ls[n])
  THEN IF body_enforce_issue_reference THEN <<NoReferenceResult>> ELSE <<>>
  ELSE Flatten([n \in 1..Len(ls) |-> LineVerdict(ls[n])])

\* C9: with body_close_issue_on_last_line only the final line is scanned
\* (phrases on earlier lines are neither validated nor counted), the empty
\* body is scanned as the empty text, and without the flag every line is
\* scanned.
C9_LastLineOnly ==
  /\ body_close_issue /\ HostSupported
       /\ pc \in {"extract", "match", "issue", "done"} =>
       body = IF body_close_issue_on_last_line THEN FinalLine(arg_body)
              ELSE arg_body
  /\ Scanned /\ arg_body \in LineBodies =>
       results = LinesVerdict(IF body_close_issue_on_last_line
                              THEN <<FinalLine(arg_body)>>
                              ELSE Runs(arg_body, {"\n"}))

\* a valid reference on the first line only, last-line checking enforced
C9_Witness ==
  /\ Scanned
  /\ body_close_issue_on_last_line
  /\ body_enforce_issue_reference
  /\ arg_body = FIX \o SP \o <<"#", "1">> \o NL \o <<"a", "b">>
  /\ results =
       <<Result("Body of HEAD commit does not contain any {} reference in the last line.",
                IF body_close_issue_full_url THEN "full issue" ELSE "issue",
                <<>>)>>

\* a bitbucket issue URL with one path segment after the number X
HgUrl(x) == Url(<<"b", "i", "t", "b", "u", "c", "k", "e", "t", ".", "o", "r", "g">>, x, <<"/", "n">>)

HgUrlVerdict(x) ==
  IF IsIssueNumber(x) THEN <<>>
  ELSE <<Result("Invalid issue number: {}", "", HgUrl(x))>>

\* C10: on hg with host bitbucket in full-URL mode, a keyword followed by
\* two URLs .../issues/X/segment joined by a conjunction (also over a line
\* break) is one phrase, and each URL yields nothing when X is a number
\* without leading zero and one 'Invalid issue number: <URL>' otherwise.
C10_HgFullUrl ==
  Scanned /\ backend = "hg" /\ body_close_issue_full_url
    /\ ~body_close_issue_on_last_line =>
    \A x \in UrlNums :
      /\ arg_body = FIX \o SP \o HgUrl(x) => results = HgUrlVerdict(x)
      /\ \A y \in UrlNums, c \in {<<"\n", "a", "n", "d", " ">>, <<",", " ">>} :
           arg_body = CLOSING \o SP \o HgUrl(x) \o c \o HgUrl(y) =>
             /\ matches = <<HgUrl(x) \o c \o HgUrl(y)>>
             /\ results = HgUrlVerdict(x) \o HgUrlVerdict(y)

\* 'Closing <url 7>\nand <url x>' gave one result, for the second URL
C10_Witness ==
  /\ Scanned
  /\ backend = "hg"
  /\ body_close_issue_full_url
  /\ arg_body = CLOSING \o SP \o HgUrl(<<"7">>) \o <<"\n", "a", "n", "d", " ">> \o HgUrl(<<"x">>)
  /\ results = <<Result("Invalid issue number: {}", "", HgUrl(<<"x">>))>>

\* none of check_shortlog, check_body and check_issue_reference was called
NoChecksRun == steps = <<>> /\ pc = "idle"

\* the log command gave error text and run has looked at it
ErrorSeen == Len(stderr) # 0 /\ rpc # "start"

\* C11: when the log command gives error text, run ends with no Result, one
\* message on the error channel and none of the three checks called,
\* whatever the command printed besides
C11_ErrorAborts ==
  ErrorSeen =>
    /\ rpc = "done"
    /\ results = <<>>
    /\ Len(err) = 1
    /\ NoChecksRun

\* a commit message with a closing keyword came with error text and run
\* has ended
C11_Witness ==
  /\ ErrorSeen
  /\ rpc = "done"
  /\ Contains(stdout, FIX)
  /\ body_close_issue
  /\ Len(err) = 1

\* there is no error text, the message has line breaks only and run has
\* split it
EmptyMessageSeen ==
  /\ Len(stderr) = 0
  /\ \A p \in 1..Len(stdout) : stdout[p] = "\n"
  /\ rpc \notin {"start", "split"}

\* C12: a message that is empty once its final line breaks are removed
\* gives the one Result 'HEAD commit has no message.' unless
\* allow_empty_commit_message is set, then none; none of the three checks
\* is called
C12_EmptyMessage ==
  EmptyMessageSeen =>
    /\ rpc = "done"
    /\ Len(results) = IF allow_empty_commit_message THEN 0 ELSE 1
    /\ \A n \in 1..Len(results) : results[n].fmt = "HEAD commit has no message."
    /\ NoChecksRun

\* an empty message was refused
C12_Witness ==
  /\ EmptyMessageSeen
  /\ ~allow_empty_commit_message
  /\ rpc = "done"
  /\ Len(results) = 1

\* get_host_from_remotes has been called and has ended
HostAsked == body_close_issue /\ pc \notin {"idle", "start", "host"}

\* the first line of the listing of remotes
FirstRemote == BeforeFirst(remotes_out, "\n")

\* C13 as stated: the host that is resolved has no '@', no '.' and no
\* upper-case letter, and it is 'github' for a first remote on github.com
\* with or without a user and in any letter case
C13_BareLowercasedLabel ==
  HostAsked /\ host.kind = "str" =>
    /\ \A n \in 1..Len(host.v) : host.v[n] \notin {"@", "."} \cup UpperLetters
    /\ Contains(lower(FirstRemote), GITHUB \o <<".", "c", "o", "m">>)
         => host.v = GITHUB

\* C14 as stated: for every listing of remotes the resolution of the host
\* comes back with no host or with a host name; it never raises
C14_ResolutionTotal ==
  HostAsked => host.kind \in {"None", "str"} /\ pc # "raised"

\* C15 as stated: no token that the split of a phrase gives is a closing
\* keyword of the dialect
C15_NoKeywordToken ==
  HostSupported => \A n \in 1..Len(issues) : issues[n] \notin KeywordWords

\* the text has one closing keyword of the dialect, and only whitespace
\* after it
KeywordAlone(b) ==
  \E k \in KeywordWords :
    \E p \in 0..(Len(b) - Len(k)) :
      /\ Slice(b, p, p + Len(k)) = k
      /\ NoKeywordIn(Slice(b, 0, p))
      /\ \A q \in (p + Len(k) + 1)..Len(b) : b[q] \in Whitespace

\* C16 as stated: a body that is a closing keyword with nothing after it
\* yields no result, with and without enforcement
C16_KeywordAloneSilent ==
  Scanned /\ KeywordAlone(arg_body) => results = <<>>

\* C16, amended: a body that is a closing keyword with nothing after it has
\* no phrase at all; it yields no result without enforcement and the one
\* result that no reference was found with enforcement
C16_KeywordAloneIsNoPhrase ==
  Scanned /\ KeywordAlone(arg_body) =>
    /\ matches = <<>>
    /\ results = IF body_enforce_issue_reference
                 THEN <<NoReferenceResult>> ELSE <<>>

\* 'Fix ' was scanned with enforcement and gave one result
C16_Witness ==
  /\ Scanned
  /\ arg_body = FIX \o SP
  /\ body_enforce_issue_reference
  /\ Len(results) = 1

\* the bear constructed last, once its setup_dependencies has returned
LastBearReturned == Len(bears) > 0 /\ Last(bears).pc = "returned"

\* C17: a bear constructed while its class's attribute is false downloads
\* and leaves the attribute true if the setting is true or absent, and does
\* not download and leaves it false if the setting is false; a bear
\* constructed while the attribute is true does not download and leaves it
\* true
C17_SetupDependencies ==
  LastBearReturned =>
    LET b == Last(bears)
    IN IF b.saw = "False"
       THEN IF b.setting \in {"True", "absent"}
            THEN b.downloaded /\ Attr(b.class) = "True"
            ELSE ~b.downloaded /\ Attr(b.class) = "False"
       ELSE b.saw = "True" /\ ~b.downloaded /\ Attr(b.class) = "True"

\* a bear downloaded, the next one of its class found the attribute true
\* and did not, and a third one with the setting false was constructed
\* while the attribute of its class was false
C17_Witness ==
  /\ Len(bears) = 3
  /\ LastBearReturned
  /\ bears[1].downloaded
  /\ bears[2].class = bears[1].class
  /\ bears[2].saw = "True" /\ ~bears[2].downloaded
  /\ bears[3].saw = "False" /\ bears[3].setting = "False"
  /\ downloads.finished = 1

\* the attribute of a class is true only after a download has come back,
\* and a bear with the check enabled has returned only after one has
DataAvailable ==
  /\ \A c \in Classes :
       nltk_data_downloaded[c] = "True" => downloads.finished >= 1
  /\ \A n \in 1..Len(bears) :
       bears[n].pc = "returned" /\ ImperativeSetting(bears[n].setting)
         => downloads.finished >= 1

\* C18: with concurrent constructions the attribute is never true before a
\* download has come back, it never goes from true to another value, and
\* setup_dependencies with the check enabled returns only after a download
\* has come back
C18_RaceIsSafe ==
  /\ []DataAvailable
  /\ [][\A c \in Classes : nltk_data_downloaded[c] = "True"
                             => nltk_data_downloaded'[c] = "True"]_vars

\* two bears of one class both downloaded: the download ran twice
C18_Witness ==
  /\ Len(bears) >= 2
  /\ bears[1].class = bears[2].class
  /\ bears[1].downloaded /\ bears[2].downloaded
  /\ bears[1].pc = "returned" /\ bears[2].pc = "returned"
  /\ downloads.finished = 2

\* C19 as stated: when bears of the two classes are constructed one after
\* the other, nltk.download is called at most once
C19_OneDownload == downloads.begun <= 1

\* 'wip' in any letter case within the first four characters
HasWipMark(s) ==
  \E p \in 1..2 :
    /\ p + 2 <= Len(s)
    /\ s[p] \in {"w", "W"}
    /\ s[p + 1] \in {"i", "I"}
    /\ s[p + 2] \in {"p", "P"}

\* check_shortlog was called and has run to its end
ShortlogChecked ==
  Calls("check_shortlog") = 1 /\ rpc \in {"body", "issue", "done"}

WipFormat ==
  "This commit seems to be marked as work in progress and should not be used in production. Treat carefully."

\* C20 as stated: with shortlog_wip_check on, a shortlog with 'wip' within
\* its first four characters yields the work-in-progress result whatever
\* the other settings are; with it off or None that result is not yielded
C20_WipIndependent ==
  ShortlogChecked =>
    IF kwargs.shortlog_wip_check = "True"
    THEN HasWipMark(shortlog) => \E n \in 1..Len(results) : results[n].fmt = WipFormat
    ELSE \A n \in 1..Len(results) : results[n].fmt # WipFormat

\* check_shortlog was called with a shortlog that is not empty
ShortlogSeen == Calls("check_shortlog") = 1 /\ Len(shortlog) > 0

\* the number of results with the given message
Count(fmt) == Cardinality({n \in 1..Len(results) : results[n].fmt = fmt})

\* C21: for a shortlog that is not empty, shortlog_trailing_period True
\* gives the result 'contains no period at end' exactly when the last
\* character is not '.', False gives 'contains a period at end' exactly
\* when it is '.', and None gives neither
C21_TrailingPeriod ==
  ShortlogSeen =>
    LET none == Count("Shortlog of HEAD commit contains no period at end.")
        some == Count("Shortlog of HEAD commit contains a period at end.")
        dot == shortlog[Len(shortlog)] = "."
    IN CASE kwargs.shortlog_trailing_period = "True" ->
              none = (IF dot THEN 0 ELSE 1) /\ some = 0
         [] kwargs.shortlog_trailing_period = "False" ->
              some = (IF dot THEN 1 ELSE 0) /\ none = 0
         [] OTHER -> none = 0 /\ some = 0

\* 'Add x.' was checked with shortlog_trailing_period False and the period
\* was reported
C21_Witness ==
  /\ ShortlogSeen
  /\ shortlog = <<"A", "d", "d", " ", "x", ".">>
  /\ kwargs.shortlog_trailing_period = "False"
  /\ Count("Shortlog of HEAD commit contains a period at end.") = 1

\* check_body was called
BodyChecked == Calls("check_body") = 1

NoBodyFormat == "No commit message body at HEAD."

NoNewlineFormat ==
  "No newline found between shortlog and body at HEAD commit. Please add one."

\* the messages of the body regex and of the line length
LaterBodyFormats ==
  {"No match found in commit message for the regular expression provided: %s",
   "Body of HEAD commit contains too long lines. Commit body lines should not exceed {} characters."}

\* C22: an empty body gives the one result 'No commit message body at
\* HEAD.' with force_body and none without; a body that does not start
\* with a newline gives the one result 'No newline found ...' and neither
\* the body regex nor the line length is checked; in both cases run goes on
\* to check_issue_reference, which scans the same body
C22_BodyShortCircuits ==
  BodyChecked /\ (Len(arg_body) = 0 \/ arg_body[1] # "\n") =>
    /\ Count(NoBodyFormat)
         = (IF Len(arg_body) = 0 /\ kwargs.force_body THEN 1 ELSE 0)
    /\ Count(NoNewlineFormat) = (IF Len(arg_body) = 0 THEN 0 ELSE 1)
    /\ \A f \in LaterBodyFormats : Count(f) = 0
    /\ pc # "idle"
    /\ rpc = "done" /\ body_close_issue =>
         /\ Calls("get_host_from_remotes") = 1
         /\ HostSupported => Calls("findall") = 1 /\ body = arg_body

\* the body 'Fix #0' came right after the shortlog: check_body reported
\* the missing newline only, although the line limit and the body regex
\* were set, and check_issue_reference reported the number
C22_Witness ==
  /\ rpc = "done"
  /\ arg_body = FIX \o SP \o <<"#", "0">>
  /\ kwargs.body_regex.src # ""
  /\ Count(NoNewlineFormat) = 1
  /\ Count("Invalid issue number: {}") = 1

\* the issue URL on the site of the resolved host, with number 7 and the
\* given path after the number
SiteUrl(t) ==
  Url(host.v \o (IF host.v = BITBUCKET THEN <<".", "o", "r", "g">>
                 ELSE <<".", "c", "o", "m">>),
      <<"7">>, t)

\* what the claim says of that URL: nothing for a valid one, else the one
\* result
TrailVerdict(t) ==
  IF backend = "hg"
  THEN CASE t = <<>> ->
              <<Result("Invalid {} reference: {}", "full issue", SiteUrl(t))>>
         [] t = <<"/", "n">> -> <<>>
         [] OTHER -> <<Result("Invalid issue number: {}", "", SiteUrl(t))>>
  ELSE CASE t = <<>> -> <<>>
         [] OTHER -> <<Result("Invalid issue number: {}", "", SiteUrl(t))>>

\* C23: in full-URL mode hg takes .../issues/7/n as valid, reports
\* .../issues/7 as an invalid full issue reference and .../issues/7/n/m as
\* an invalid issue number; git takes .../issues/7 as valid and reports
\* .../issues/7/n as an invalid issue number
C23_TrailingPath ==
  Scanned /\ body_close_issue_full_url =>
    \A t \in (IF backend = "hg" THEN Trails ELSE {<<>>, <<"/", "n">>}) :
      arg_body = FIX \o SP \o SiteUrl(t) => results = TrailVerdict(t)

\* git reported the URL with a path after the number
C23_Witness ==
  /\ Scanned
  /\ backend = "git"
  /\ body_close_issue_full_url
  /\ arg_body = FIX \o SP \o SiteUrl(<<"/", "n">>)
  /\ results = <<Result("Invalid issue number: {}", "", SiteUrl(<<"/", "n">>))>>

\* the text has a closing keyword of the dialect, then whitespace, then a
\* character that is no whitespace
KeywordThenToken(b) ==
  \E k \in KeywordWords :
    \E p \in 0..(Len(b) - Len(k)) :
      /\ Slice(b, p, p + Len(k)) = k
      /\ \E q \in (p + Len(k) + 2)..Len(b) :
           /\ b[q] \notin Whitespace
           /\ \A n \in (p + Len(k) + 1)..(q - 1) : b[n] \in Whitespace

\* findall has run on the scanned text
Extracted == body_close_issue /\ HostSupported /\ pc \in {"match", "issue", "done"}

PREFIX0 == <<"p", "r", "e", "f", "i", "x", " ", "#", "0">>

SUFFIXFOO == <<"s", "u", "f", "f", "i", "x", " ", "f", "o", "o">>

====
